---- MODULE Spec2Model ----
(***************************************************************************)
(* MemoryCloud server (src/server/index.js): the capability-budget gate,   *)
(* the ingestion handler with its family-assignment decision, the brief   *)
(* handlers, the background re-classification sweep, the idea links of     *)
(* GET /api/links, the response links of POST /:id/links, the functions on *)
(* theme axes, and the cluster labels of the client                        *)
(* (src/client/src/App.jsx).                                               *)
(*                                                                         *)
(* Node runs every handler to completion between two awaits, so one action *)
(* is one synchronous block: the code from the resolution of one await to  *)
(* the next await that waits on the external provider or on a timer.  A    *)
(* store read or write is taken at the instant its await resolves and is   *)
(* merged with the block that follows it (no block both writes the store   *)
(* and touches the gate, so the merged blocks commute with the others).    *)
(*                                                                         *)
(* Scores are in 1/10000 (0.62 is 6200), sub-scores and weights in 1/100;  *)
(* a normalized axis weight is the fraction num / den.  The rounding of    *)
(* IEEE doubles is not modelled: sums and quotients are exact.  Time is in *)
(* milliseconds.  Memory ids are positions in creation order, all of them  *)
(* well-formed ObjectIds.                                                  *)
(* The name "" stands for null / no name.                                  *)
(***************************************************************************)
EXTENDS Integers, Sequences, FiniteSets, TLC

\* ---------------------------------------------------------------- bounds
MaxTicks == 1
MaxRuns == 2
MaxDecisions == 1
MaxGateRuns == 16
MaxWindow == 18
MaxMixed == 2

\* ------------------------------------------------------------- variables
VARIABLES
  now,                 \* Date.now()
  requestCount,        \* index.js:185
  rateLimitResetTime,  \* index.js:186
  audit,               \* history of the gate: grants and external calls of the current window, the last call,
                       \* the grants of the last minute
  memories,            \* the Memory collection, in creation order
  isReprocessing,      \* index.js:882
  ingest,              \* the POST / handler instances
  brief,               \* the brief handler instance
  sweep,               \* the reprocessOfflineMemories invocations
  runs,                \* the handler invocations so far
  links,               \* the last response of GET /api/links
  attach,              \* the last response of POST /:id/links
  clusterLabelById,    \* App.jsx:245, the cluster labels the client shows
  probe                \* a pure function's arguments and its result

vars == <<now, requestCount, rateLimitResetTime, audit, memories, isReprocessing, ingest, brief, sweep, runs, links,
          attach, clusterLabelById, probe>>

\* ------------------------------------------------------------------ gate
WindowMs == 60000

QuotaOffByOne(count, reset, t) ==
  LET c1 == IF t >= reset THEN 0 ELSE count
      r1 == IF t >= reset THEN t + WindowMs ELSE reset
  IN  IF c1 > 14 THEN [ok |-> FALSE, count |-> c1, reset |-> r1]
      ELSE [ok |-> TRUE, count |-> c1 + 1, reset |-> r1]

ForgetFirstCall(count, reset, t) ==
  LET c1 == IF t >= reset THEN 0 ELSE count
      r1 == IF t >= reset THEN t + WindowMs ELSE reset
  IN  IF c1 >= 14 THEN [ok |-> FALSE, count |-> c1, reset |-> r1]
      ELSE [ok |-> TRUE, count |-> IF t >= reset THEN 0 ELSE c1 + 1, reset |-> r1]

\* checkRateLimit on the gate (count, reset) at time t: the result and the new gate
checkRateLimit(count, reset, t) ==
  LET c1 == IF t >= reset THEN 0 ELSE count
      r1 == IF t >= reset THEN t + WindowMs ELSE reset
  IN  IF c1 >= 14 THEN [ok |-> FALSE, count |-> c1, reset |-> r1]
      ELSE [ok |-> TRUE, count |-> c1 + 1, reset |-> r1]

\* The gate as a handler sees it at the start of its block.
Gate0 == [ok |-> TRUE, count |-> requestCount, reset |-> rateLimitResetTime, audit |-> audit]

\* history: the grants of the last WindowMs before t, as [at |-> time, n |-> grants at that time]
RECURSIVE Since(_, _)
Since(stamps, t) ==
  IF stamps = <<>> THEN <<>>
  ELSE IF Head(stamps).at > t - WindowMs THEN stamps
  ELSE Since(Tail(stamps), t)

Stamped(stamps, t) ==
  IF stamps # <<>> /\ stamps[Len(stamps)].at = t
  THEN [stamps EXCEPT ![Len(stamps)].n = @ + 1]
  ELSE Append(stamps, [at |-> t, n |-> 1])

\* One call of checkRateLimit, with the history kept beside it: the window
\* restarts when the call moves the reset time.
Acquire(g) ==
  LET r == checkRateLimit(g.count, g.reset, now)
      restarted == r.reset # g.reset
      before == IF restarted THEN 0 ELSE g.audit.granted
      recent == Since(g.audit.stamps, now)
  IN  [ok |-> r.ok, count |-> r.count, reset |-> r.reset,
       audit |-> [granted |-> before + (IF r.ok THEN 1 ELSE 0),
                  stamps |-> IF r.ok THEN Stamped(recent, now) ELSE recent,
                  calls |-> IF restarted THEN 0 ELSE g.audit.calls,
                  lastOk |-> r.ok,
                  lastBefore |-> g.audit.granted,
                  lastElapsed |-> now >= g.reset,
                  prevOk |-> g.audit.lastOk]]

\* One request sent to the external provider (generateContent, embedContent).
ExternalCall(g) == [g EXCEPT !.audit.calls = @ + 1]

Commit(g) ==
  /\ requestCount' = g.count
  /\ rateLimitResetTime' = g.reset
  /\ audit' = g.audit

\* ------------------------------------------------------- offline fallback
\* OFFLINE_MOODS, index.js:204-213 (the names; the colours are not modelled)
OFFLINE_MOODS == <<"Memory", "Reflection", "Longing", "Quiet Joy", "Tension", "Relief", "Grief", "Wonder">>

\* getOfflineMood with Math.random's draw k
getOfflineMood(k) ==
  [mood |-> OFFLINE_MOODS[k], tags |-> {"Offline", "Auto-classified"}, hasTags |-> TRUE]

\* the analysis the catch block substitutes for an unparseable answer, index.js:646
ParseErrorAnalysis == [mood |-> "Memory", tags |-> {"Raw", "Unsorted"}, hasTags |-> TRUE]

\* normalizeAnalysis: mood and tags (colour and themeVector do not enter a decision here)
normalizeAnalysis(analysis) ==
  [mood |-> IF analysis.mood # "" THEN analysis.mood ELSE "Fragment",
   tags |-> IF analysis.hasTags THEN analysis.tags ELSE {"Raw", "Unsorted"}]

\* ------------------------------------------------------------- embeddings
RECURSIVE SumAbs(_)
SumAbs(e) ==
  IF e = <<>> THEN 0
  ELSE (IF Head(e) < 0 THEN 0 - Head(e) ELSE Head(e)) + SumAbs(Tail(e))

isValidEmbedding(embedding) == Len(embedding) >= 8 /\ SumAbs(embedding) > 0

Sentinel == <<0, 0, 0>>

\* what embedText returns for the provider's answer: its values when usable, else [0,0,0]
embedTextResult(resp) ==
  IF resp.kind = "values" /\ isValidEmbedding(resp.values) THEN resp.values ELSE Sentinel

\* --------------------------------------------------------- family profiles
\* a.map((value, index) => value + (b[index] || 0))
VecAdd(a, b) == [i \in 1..Len(a) |-> a[i] + (IF i <= Len(b) THEN b[i] ELSE 0)]

RECURSIVE IndexOfMood(_, _, _)
IndexOfMood(stats, mood, i) ==
  IF i > Len(stats) THEN 0
  ELSE IF stats[i].mood = mood THEN i
  ELSE IndexOfMood(stats, mood, i + 1)

\* buildFamilyStats over the sample, in the sample's order: one profile per mood,
\* in first-seen order.  The profile's embedding is kept as the sum of the usable
\* embeddings (the mean is usable exactly when the sum is); <<>> is null.  The
\* profile's themeVector and tags enter only through the similarity values.
RECURSIVE buildFamilyStats(_, _)
buildFamilyStats(sample, stats) ==
  IF sample = <<>> THEN stats
  ELSE LET memory == Head(sample)
           k == IndexOfMood(stats, memory.mood, 1)
           base == IF k = 0 THEN Append(stats, [mood |-> memory.mood, embedding |-> <<>>]) ELSE stats
           j == IF k = 0 THEN Len(base) ELSE k
           next == IF isValidEmbedding(memory.embedding)
                   THEN [base EXCEPT ![j].embedding =
                           IF @ = <<>> THEN memory.embedding ELSE VecAdd(@, memory.embedding)]
                   ELSE base
       IN  buildFamilyStats(Tail(sample), next)

scoreFamilyMatchStaleTotal(candidateEmbedding, family, sim) ==
  LET hasEmbedding == isValidEmbedding(candidateEmbedding) /\ isValidEmbedding(family.embedding)
      embeddingScore == IF hasEmbedding THEN sim.e ELSE 0
      weights == IF hasEmbedding THEN [embedding |-> 60, theme |-> 25, tags |-> 15]
                 ELSE [embedding |-> 0, theme |-> 65, tags |-> 35]
      totalWeight == IF hasEmbedding THEN 100 ELSE 40
  IN  [mood |-> family.mood,
       score |-> ((embeddingScore * weights.embedding + sim.t * weights.theme + sim.g * weights.tags) * 100) \div totalWeight,
       hasEmbedding |-> hasEmbedding]

\* scoreFamilyMatch: sim is the three similarity values of the candidate against
\* this family, [e |-> cosine, t |-> themeSimilarity, g |-> tagSimilarity], in 1/100
scoreFamilyMatch(candidateEmbedding, family, sim) ==
  LET hasEmbedding == isValidEmbedding(candidateEmbedding) /\ isValidEmbedding(family.embedding)
      embeddingScore == IF hasEmbedding THEN sim.e ELSE 0
      weights == IF hasEmbedding THEN [embedding |-> 60, theme |-> 25, tags |-> 15]
                 ELSE [embedding |-> 0, theme |-> 65, tags |-> 35]
      sum == weights.embedding + weights.theme + weights.tags
      totalWeight == IF sum # 0 THEN sum ELSE 1
  IN  [mood |-> family.mood,
       score |-> ((embeddingScore * weights.embedding + sim.t * weights.theme + sim.g * weights.tags) * 100) \div totalWeight,
       hasEmbedding |-> hasEmbedding]

\* .sort((a, b) => b.score - a.score): descending, stable
RECURSIVE InsertByScore(_, _)
InsertByScore(x, sorted) ==
  IF sorted = <<>> THEN <<x>>
  ELSE IF Head(sorted).score >= x.score THEN <<Head(sorted)>> \o InsertByScore(x, Tail(sorted))
  ELSE <<x>> \o sorted

RECURSIVE SortByScore(_, _)
SortByScore(entries, sorted) ==
  IF entries = <<>> THEN sorted
  ELSE SortByScore(Tail(entries), InsertByScore(Head(entries), sorted))

\* index.js:667-676
scoreFamilies(candidateEmbedding, familyStats, sims) ==
  SortByScore([k \in 1..Len(familyStats) |-> scoreFamilyMatch(candidateEmbedding, familyStats[k], sims[k])], <<>>)

\* Memory.distinct('mood')
Distinct(mems) == {mems[k].mood : k \in 1..Len(mems)}

RECURSIVE Reverse(_)
Reverse(s) == IF s = <<>> THEN <<>> ELSE Append(Reverse(Tail(s)), Head(s))

\* Memory.find({mood: {$in: families}}).sort({createdAt: -1}), leaving out the ids in `skip`
RECURSIVE SampleOf(_, _, _, _)
SampleOf(mems, families, skip, k) ==
  IF k = 0 THEN <<>>
  ELSE (IF mems[k].mood \in families /\ k \notin skip THEN <<mems[k]>> ELSE <<>>)
       \o SampleOf(mems, families, skip, k - 1)

\* ------------------------------------------------- the external provider
\* The gate phase of embedText, proposeNewFamilyName and broadenMoodName: the
\* gate after the call, with ok telling whether the request was sent.
embedTextUngated(g) ==
  LET a == Acquire(g) IN [ExternalCall(a) EXCEPT !.ok = TRUE]

embedText(g) ==
  LET a == Acquire(g) IN IF a.ok THEN ExternalCall(a) ELSE a

proposeNewFamilyName(g) ==
  LET a == Acquire(g) IN IF a.ok THEN ExternalCall(a) ELSE a

broadenMoodName(g, mood) ==
  IF mood = "" THEN [g EXCEPT !.ok = FALSE]
  ELSE LET a == Acquire(g) IN IF a.ok THEN ExternalCall(a) ELSE a

\* what proposeNewFamilyName and broadenMoodName return for the provider's
\* answer: the name, or null for an error, an unparseable or an empty answer
nameResult(resp) == IF resp.kind = "json" THEN resp.mood ELSE ""

\* ------------------------------------------------------------- ingestion
NoDecision == [decidedBy |-> "", finalMood |-> "", isNewFamily |-> FALSE]

IdleIngest ==
  [pc |-> "idle", call |-> FALSE, existing |-> {}, offlineMode |-> FALSE,
   mood |-> "", tags |-> {}, embedding |-> <<>>, scored |-> <<>>,
   step5 |-> NoDecision, proposed |-> "", broadened |-> "",
   finalMood |-> "", isNewFamily |-> FALSE, decidedBy |-> "", status |-> 0,
   called |-> {}]

\* history: the handler waits for `stage`; sent tells whether a request went to the provider
Called(rec, stage, sent) ==
  [rec EXCEPT !.call = sent, !.called = IF sent THEN @ \cup {stage} ELSE @]

decideStrongOnly(scoredFamilies, mood, existingFamilies, embedding) ==
  LET n == Len(scoredFamilies)
      hasBest == n >= 1
      bestScore == IF hasBest THEN scoredFamilies[1].score ELSE 0
      secondScore == IF n >= 2 THEN scoredFamilies[2].score ELSE 0
      ai == IndexOfMood(scoredFamilies, mood, 1)
      hasEmbedding == isValidEmbedding(embedding) /\ hasBest /\ scoredFamilies[1].hasEmbedding
      threshold == IF hasEmbedding THEN 6200 ELSE 5200
      strongThreshold == IF hasEmbedding THEN 7200 ELSE 6000
      margin == 800
      bestMargin == IF hasBest THEN bestScore - secondScore ELSE 0
  IN  IF hasBest /\ bestScore >= threshold /\ bestScore >= strongThreshold
      THEN [decidedBy |-> "similarity", finalMood |-> scoredFamilies[1].mood, isNewFamily |-> FALSE]
      ELSE IF mood \notin existingFamilies
      THEN [decidedBy |-> "ai-new", finalMood |-> mood, isNewFamily |-> TRUE]
      ELSE IF ai # 0 /\ scoredFamilies[ai].score >= threshold - 500
      THEN [decidedBy |-> "ai-existing", finalMood |-> mood, isNewFamily |-> FALSE]
      ELSE [decidedBy |-> "ai-override", finalMood |-> "", isNewFamily |-> FALSE]

decideNewNeedsLowScore(scoredFamilies, mood, existingFamilies, embedding) ==
  LET n == Len(scoredFamilies)
      hasBest == n >= 1
      bestScore == IF hasBest THEN scoredFamilies[1].score ELSE 0
      secondScore == IF n >= 2 THEN scoredFamilies[2].score ELSE 0
      ai == IndexOfMood(scoredFamilies, mood, 1)
      hasEmbedding == isValidEmbedding(embedding) /\ hasBest /\ scoredFamilies[1].hasEmbedding
      threshold == IF hasEmbedding THEN 6200 ELSE 5200
      strongThreshold == IF hasEmbedding THEN 7200 ELSE 6000
      margin == 800
      bestMargin == IF hasBest THEN bestScore - secondScore ELSE 0
  IN  IF hasBest /\ bestScore >= threshold /\ (bestMargin >= margin \/ bestScore >= strongThreshold)
      THEN [decidedBy |-> "similarity", finalMood |-> scoredFamilies[1].mood, isNewFamily |-> FALSE]
      ELSE IF mood \notin existingFamilies /\ bestScore < threshold
      THEN [decidedBy |-> "ai-new", finalMood |-> mood, isNewFamily |-> TRUE]
      ELSE IF ai # 0 /\ scoredFamilies[ai].score >= threshold - 500
      THEN [decidedBy |-> "ai-existing", finalMood |-> mood, isNewFamily |-> FALSE]
      ELSE [decidedBy |-> "ai-override", finalMood |-> "", isNewFamily |-> FALSE]

decideHardBar(scoredFamilies, mood, existingFamilies, embedding) ==
  LET n == Len(scoredFamilies)
      hasBest == n >= 1
      bestScore == IF hasBest THEN scoredFamilies[1].score ELSE 0
      secondScore == IF n >= 2 THEN scoredFamilies[2].score ELSE 0
      ai == IndexOfMood(scoredFamilies, mood, 1)
      hasEmbedding == isValidEmbedding(embedding) /\ hasBest /\ scoredFamilies[1].hasEmbedding
      threshold == IF hasEmbedding THEN 6200 ELSE 5200
      strongThreshold == IF hasEmbedding THEN 7200 ELSE 6000
      margin == 800
      bestMargin == IF hasBest THEN bestScore - secondScore ELSE 0
  IN  IF hasBest /\ bestScore >= threshold /\ (bestMargin >= margin \/ bestScore >= strongThreshold)
      THEN [decidedBy |-> "similarity", finalMood |-> scoredFamilies[1].mood, isNewFamily |-> FALSE]
      ELSE IF mood \notin existingFamilies
      THEN [decidedBy |-> "ai-new", finalMood |-> mood, isNewFamily |-> TRUE]
      ELSE IF ai # 0 /\ scoredFamilies[ai].score >= threshold
      THEN [decidedBy |-> "ai-existing", finalMood |-> mood, isNewFamily |-> FALSE]
      ELSE [decidedBy |-> "ai-override", finalMood |-> "", isNewFamily |-> FALSE]

decideCandidateOnly(scoredFamilies, mood, existingFamilies, embedding) ==
  LET n == Len(scoredFamilies)
      hasBest == n >= 1
      bestScore == IF hasBest THEN scoredFamilies[1].score ELSE 0
      secondScore == IF n >= 2 THEN scoredFamilies[2].score ELSE 0
      ai == IndexOfMood(scoredFamilies, mood, 1)
      hasEmbedding == isValidEmbedding(embedding)
      threshold == IF hasEmbedding THEN 6200 ELSE 5200
      strongThreshold == IF hasEmbedding THEN 7200 ELSE 6000
      margin == 800
      bestMargin == IF hasBest THEN bestScore - secondScore ELSE 0
  IN  IF hasBest /\ bestScore >= threshold /\ (bestMargin >= margin \/ bestScore >= strongThreshold)
      THEN [decidedBy |-> "similarity", finalMood |-> scoredFamilies[1].mood, isNewFamily |-> FALSE]
      ELSE IF mood \notin existingFamilies
      THEN [decidedBy |-> "ai-new", finalMood |-> mood, isNewFamily |-> TRUE]
      ELSE IF ai # 0 /\ scoredFamilies[ai].score >= threshold - 500
      THEN [decidedBy |-> "ai-existing", finalMood |-> mood, isNewFamily |-> FALSE]
      ELSE [decidedBy |-> "ai-override", finalMood |-> "", isNewFamily |-> FALSE]

\* index.js:678-704, up to the call of proposeNewFamilyName: the override rule's
\* finalMood and isNewFamily are set by override once the call has returned
decide(scoredFamilies, mood, existingFamilies, embedding) ==
  LET n == Len(scoredFamilies)
      hasBest == n >= 1
      bestScore == IF hasBest THEN scoredFamilies[1].score ELSE 0
      secondScore == IF n >= 2 THEN scoredFamilies[2].score ELSE 0
      ai == IndexOfMood(scoredFamilies, mood, 1)
      hasEmbedding == isValidEmbedding(embedding) /\ hasBest /\ scoredFamilies[1].hasEmbedding
      threshold == IF hasEmbedding THEN 6200 ELSE 5200
      strongThreshold == IF hasEmbedding THEN 7200 ELSE 6000
      margin == 800
      bestMargin == IF hasBest THEN bestScore - secondScore ELSE 0
  IN  IF hasBest /\ bestScore >= threshold /\ (bestMargin >= margin \/ bestScore >= strongThreshold)
      THEN [decidedBy |-> "similarity", finalMood |-> scoredFamilies[1].mood, isNewFamily |-> FALSE]
      ELSE IF mood \notin existingFamilies
      THEN [decidedBy |-> "ai-new", finalMood |-> mood, isNewFamily |-> TRUE]
      ELSE IF ai # 0 /\ scoredFamilies[ai].score >= threshold - 500
      THEN [decidedBy |-> "ai-existing", finalMood |-> mood, isNewFamily |-> FALSE]
      ELSE [decidedBy |-> "ai-override", finalMood |-> "", isNewFamily |-> FALSE]

overrideAlwaysNew(suggestedMood, mood, existingFamilies) ==
  [decidedBy |-> "ai-override", finalMood |-> IF suggestedMood # "" THEN suggestedMood ELSE mood,
   isNewFamily |-> TRUE]

\* index.js:700-703
override(suggestedMood, mood, existingFamilies) ==
  LET finalMood == IF suggestedMood # "" THEN suggestedMood ELSE mood
  IN  [decidedBy |-> "ai-override", finalMood |-> finalMood, isNewFamily |-> finalMood \notin existingFamilies]

broadenKeepsNew(broadened, finalMood, isNewFamily, existingFamilies) ==
  IF broadened # "" /\ broadened # finalMood
  THEN [finalMood |-> broadened, isNewFamily |-> isNewFamily]
  ELSE [finalMood |-> finalMood, isNewFamily |-> isNewFamily]

\* index.js:714-717
broaden(broadened, finalMood, isNewFamily, existingFamilies) ==
  IF broadened # "" /\ broadened # finalMood
  THEN [finalMood |-> broadened, isNewFamily |-> broadened \notin existingFamilies]
  ELSE [finalMood |-> finalMood, isNewFamily |-> isNewFamily]

RespondKeepsFlag(rec) == [rec EXCEPT !.pc = "done", !.call = FALSE, !.status = 200]

\* index.js:720-751: the memory is saved and the response sent
Respond(rec) ==
  [rec EXCEPT !.pc = "done", !.call = FALSE,
              !.isNewFamily = IF rec.existing = {} THEN TRUE ELSE @,
              !.status = 200]

NewMemorySuggested(rec) == [mood |-> rec.mood, tags |-> rec.tags, embedding |-> rec.embedding, links |-> {}]

\* index.js:720-732 and the schema's default for links
NewMemory(rec) == [mood |-> rec.finalMood, tags |-> rec.tags, embedding |-> rec.embedding, links |-> {}]

\* index.js:712-732: the broadening pass is entered, or the memory is saved
AfterDecision(rec, g) ==
  IF ~rec.offlineMode /\ rec.isNewFamily
  THEN LET b == broadenMoodName(g, rec.finalMood)
       IN  [rec |-> Called([rec EXCEPT !.pc = "broaden"], "broaden", b.ok), g |-> b, save |-> FALSE]
  ELSE [rec |-> Respond(rec), g |-> g, save |-> TRUE]

WithDecisionUntraced(rec, d) ==
  [rec EXCEPT !.step5 = d, !.finalMood = d.finalMood, !.isNewFamily = d.isNewFamily]

WithDecision(rec, d) ==
  [rec EXCEPT !.step5 = d, !.finalMood = d.finalMood, !.isNewFamily = d.isNewFamily, !.decidedBy = d.decidedBy]

\* the profiles an ingestion scores against, index.js:661-665
IngestStats(rec) == buildFamilyStats(SampleOf(memories, rec.existing, {}, Len(memories)), <<>>)

\* index.js:656-718, from the embedding's arrival on
AfterEmbedding(rec, g, sims) ==
  IF ~rec.offlineMode /\ rec.existing # {}
  THEN LET scored == scoreFamilies(rec.embedding, IngestStats(rec), sims)
           d == decide(scored, rec.mood, rec.existing, rec.embedding)
           r1 == [rec EXCEPT !.scored = scored]
       IN  IF d.decidedBy = "ai-override"
           THEN LET p == proposeNewFamilyName(g)
                IN  [rec |-> Called([WithDecision(r1, d) EXCEPT !.pc = "propose"], "propose", p.ok), g |-> p, save |-> FALSE]
           ELSE AfterDecision(WithDecision(r1, d), g)
  ELSE AfterDecision(
         WithDecision(rec, [decidedBy |-> IF rec.offlineMode THEN "offline" ELSE "ai",
                            finalMood |-> rec.mood, isNewFamily |-> FALSE]), g)

\* index.js:651-654: the analysis is normalized and embedText called
AfterAnalysis(rec, g, analysis, offlineMode) ==
  LET normalized == normalizeAnalysis(analysis)
      e == embedText(g)
  IN  [rec |-> Called([rec EXCEPT !.pc = "embed", !.offlineMode = offlineMode,
                                  !.mood = normalized.mood, !.tags = normalized.tags], "embed", e.ok),
       g |-> e, save |-> FALSE]

Apply(i, out) ==
  /\ ingest' = [ingest EXCEPT ![i] = out.rec]
  /\ Commit(out.g)
  /\ memories' = IF out.save THEN Append(memories, NewMemory(out.rec)) ELSE memories

\* one more handler invocation
Started(limit) == runs < limit /\ runs' = runs + 1

\* index.js:572-592: a request with a text arrives, the families are read, the gate asked
IngestStart(i, draws, limit) ==
  /\ ingest[i].pc \in {"idle", "done"}
  /\ Started(limit)
  /\ LET rec == [IdleIngest EXCEPT !.existing = Distinct(memories)]
         a == Acquire(Gate0)
     IN  IF a.ok
         THEN Apply(i, [rec |-> Called([rec EXCEPT !.pc = "classify"], "classify", TRUE), g |-> ExternalCall(a), save |-> FALSE])
         ELSE \E k \in draws : Apply(i, AfterAnalysis(rec, a, getOfflineMood(k), TRUE))
  /\ UNCHANGED <<now, isReprocessing, brief, sweep, links, attach, clusterLabelById, probe>>

\* index.js:631-654: the classification call returns
ClassifyDone(i, answers, draws) ==
  /\ ingest[i].pc = "classify"
  /\ \E resp \in answers :
       CASE resp.kind = "json" -> Apply(i, AfterAnalysis(ingest[i], Gate0, resp, FALSE))
         [] resp.kind = "quota" -> \E k \in draws : Apply(i, AfterAnalysis(ingest[i], Gate0, getOfflineMood(k), TRUE))
         [] OTHER -> Apply(i, AfterAnalysis(ingest[i], Gate0, ParseErrorAnalysis, FALSE))
  /\ UNCHANGED <<now, isReprocessing, brief, sweep, runs, links, attach, clusterLabelById, probe>>

\* index.js:654-732: embedText returns
EmbedDone(i, answers, simset) ==
  /\ ingest[i].pc = "embed"
  /\ \E resp \in (IF ingest[i].call THEN answers ELSE {[kind |-> "skipped", values |-> <<>>]}) :
       LET rec == [ingest[i] EXCEPT !.embedding = embedTextResult(resp)]
           n == IF ~rec.offlineMode /\ rec.existing # {} THEN Len(IngestStats(rec)) ELSE 0
       IN  \E sims \in [1..n -> simset] : Apply(i, AfterEmbedding(rec, Gate0, sims))
  /\ UNCHANGED <<now, isReprocessing, brief, sweep, runs, links, attach, clusterLabelById, probe>>

\* index.js:700-732: proposeNewFamilyName returns
ProposeDone(i, answers) ==
  /\ ingest[i].pc = "propose"
  /\ \E resp \in (IF ingest[i].call THEN answers ELSE {[kind |-> "skipped", mood |-> ""]}) :
       LET suggestedMood == nameResult(resp)
           d == override(suggestedMood, ingest[i].mood, ingest[i].existing)
       IN  Apply(i, AfterDecision(WithDecision([ingest[i] EXCEPT !.proposed = suggestedMood], d), Gate0))
  /\ UNCHANGED <<now, isReprocessing, brief, sweep, runs, links, attach, clusterLabelById, probe>>

\* index.js:713-732: broadenMoodName returns
BroadenDone(i, answers) ==
  /\ ingest[i].pc = "broaden"
  /\ \E resp \in (IF ingest[i].call THEN answers ELSE {[kind |-> "skipped", mood |-> ""]}) :
       LET broadened == nameResult(resp)
           b == broaden(broadened, ingest[i].finalMood, ingest[i].isNewFamily, ingest[i].existing)
           rec == [ingest[i] EXCEPT !.broadened = broadened, !.finalMood = b.finalMood, !.isNewFamily = b.isNewFamily]
       IN  Apply(i, [rec |-> Respond(rec), g |-> Gate0, save |-> TRUE])
  /\ UNCHANGED <<now, isReprocessing, brief, sweep, runs, links, attach, clusterLabelById, probe>>

\* --------------------------------------------------------------- the clock
Tick(step) ==
  /\ now + step <= MaxTicks * WindowMs
  /\ now' = now + step
  /\ UNCHANGED <<requestCount, rateLimitResetTime, audit, memories, isReprocessing, ingest, brief, sweep, runs, links, attach, clusterLabelById, probe>>

\* ------------------------------------------------------------------ briefs
IdleBrief == [pc |-> "idle", status |-> 0]

BriefGate(status) ==
  IF status # 0
  THEN /\ brief' = [pc |-> "idle", status |-> status]
       /\ UNCHANGED <<requestCount, rateLimitResetTime, audit>>
  ELSE LET a == Acquire(Gate0)
       IN  IF a.ok
           THEN brief' = [pc |-> "call", status |-> 0] /\ Commit(ExternalCall(a))
           ELSE brief' = [pc |-> "idle", status |-> 429] /\ Commit(a)

\* index.js:760-797: POST /family/brief up to the provider's call
FamilyBrief(mood, limit) ==
  /\ brief.pc = "idle"
  /\ Started(limit)
  /\ BriefGate(IF mood = "" THEN 400 ELSE IF mood \notin Distinct(memories) THEN 404 ELSE 0)
  /\ UNCHANGED <<now, memories, isReprocessing, ingest, sweep, links, attach, clusterLabelById, probe>>

\* index.js:819-845: POST /competition/brief up to the provider's call
CompetitionBrief(memoryId, limit) ==
  /\ brief.pc = "idle"
  /\ Started(limit)
  /\ BriefGate(IF memoryId \notin 1..Len(memories) THEN 404 ELSE 0)
  /\ UNCHANGED <<now, memories, isReprocessing, ingest, sweep, links, attach, clusterLabelById, probe>>

\* index.js:797-815, 845-859: the provider answers the brief
BriefDone(answers) ==
  /\ brief.pc = "call"
  /\ \E kind \in answers :
       brief' = [pc |-> "idle", status |-> CASE kind = "json" -> 200 [] kind = "quota" -> 429 [] OTHER -> 500]
  /\ UNCHANGED <<now, requestCount, rateLimitResetTime, audit, memories, isReprocessing, ingest, sweep, runs, links, attach, clusterLabelById, probe>>

\* ------------------------------------------------- re-classification sweep
IdleSweep ==
  [pc |-> "idle", call |-> FALSE, batch |-> <<>>, idx |-> 0, existing |-> {},
   mood |-> "", tags |-> {}, embedding |-> <<>>, scored |-> <<>>, finalMood |-> "",
   outcome |-> "", denied |-> FALSE, late |-> {}, failed |-> {}]

\* history: the gate denied an acquire of this sweep; what the sweep did after that
Asked(rec, a) ==
  [rec EXCEPT !.denied = @ \/ ~a.ok,
              !.late = IF rec.denied /\ a.ok THEN @ \cup {"call"} ELSE @]

Wrote(rec) == [rec EXCEPT !.late = IF rec.denied THEN @ \cup {"write"} ELSE @]

\* history: the memory at rec.idx threw an error that is no quota error; index.js:1024-1025
Failed(rec) == [rec EXCEPT !.failed = @ \cup {rec.batch[rec.idx]}, !.idx = @ + 1, !.call = FALSE]

GuardNeverSet == FALSE

\* index.js:885-888
SweepGuard == isReprocessing

\* Memory.find({tags: 'offline'}).sort({createdAt: 1}).limit(10): the ids
RECURSIVE OfflineIds(_, _)
OfflineIds(mems, k) ==
  IF k > Len(mems) THEN <<>>
  ELSE (IF "offline" \in mems[k].tags THEN <<k>> ELSE <<>>) \o OfflineIds(mems, k + 1)

OfflineBatch(mems) ==
  LET ids == OfflineIds(mems, 1) IN SubSeq(ids, 1, IF Len(ids) < 10 THEN Len(ids) ELSE 10)

\* the finally block, index.js:1031-1033
Finished(rec, outcome) ==
  [IdleSweep EXCEPT !.outcome = outcome, !.denied = rec.denied, !.late = rec.late, !.failed = rec.failed]

IterateBreakKeepsGuard(rec, g, mems) ==
  IF rec.idx > Len(rec.batch)
  THEN [rec |-> Finished(rec, "completed"), g |-> g, mems |-> mems, running |-> FALSE]
  ELSE LET a == Acquire(g)
           r1 == Asked(rec, a)
       IN  IF ~a.ok
           THEN [rec |-> Finished(r1, "stopped"), g |-> a, mems |-> mems, running |-> TRUE]
           ELSE [rec |-> [r1 EXCEPT !.pc = "classify", !.call = TRUE, !.existing = Distinct(mems)],
                 g |-> ExternalCall(a), mems |-> mems, running |-> TRUE]

\* index.js:905-956: the head of the loop for the memory at rec.idx
Iterate(rec, g, mems) ==
  IF rec.idx > Len(rec.batch)
  THEN [rec |-> Finished(rec, "completed"), g |-> g, mems |-> mems, running |-> FALSE]
  ELSE LET a == Acquire(g)
           r1 == Asked(rec, a)
       IN  IF ~a.ok
           THEN [rec |-> Finished(r1, "stopped"), g |-> a, mems |-> mems, running |-> FALSE]
           ELSE [rec |-> [r1 EXCEPT !.pc = "classify", !.call = TRUE, !.existing = Distinct(mems)],
                 g |-> ExternalCall(a), mems |-> mems, running |-> TRUE]

SweepApply(s, out) ==
  /\ sweep' = [sweep EXCEPT ![s] = out.rec]
  /\ Commit(out.g)
  /\ memories' = out.mems
  /\ isReprocessing' = out.running

\* index.js:884-896, 1036-1044: a timer calls reprocessOfflineMemories
SweepStart(s) ==
  /\ sweep[s].pc = "idle"
  /\ Started(MaxRuns)
  /\ IF SweepGuard
     THEN /\ sweep' = [sweep EXCEPT ![s].outcome = "skipped"]
          /\ UNCHANGED isReprocessing
     ELSE /\ sweep' = [sweep EXCEPT ![s] = [IdleSweep EXCEPT !.pc = "find"]]
          /\ isReprocessing' = TRUE
  /\ UNCHANGED <<now, requestCount, rateLimitResetTime, audit, memories, ingest, brief, links, attach, clusterLabelById, probe>>

\* index.js:894-910, 1029-1033: the batch arrives, or the query fails
SweepFound(s, finds) ==
  /\ sweep[s].pc = "find"
  /\ \E found \in finds :
       LET batch == OfflineBatch(memories)
       IN  IF found = "error"
           THEN SweepApply(s, [rec |-> Finished(sweep[s], "failed"), g |-> Gate0, mems |-> memories, running |-> FALSE])
           ELSE IF batch = <<>>
           THEN SweepApply(s, [rec |-> Finished(sweep[s], "nothing"), g |-> Gate0, mems |-> memories, running |-> FALSE])
           ELSE SweepApply(s, Iterate([sweep[s] EXCEPT !.batch = batch, !.idx = 1], Gate0, memories))
  /\ UNCHANGED <<now, ingest, brief, runs, links, attach, clusterLabelById, probe>>

\* index.js:956-965, 1019-1026: the classification call returns
SweepClassified(s, answers) ==
  /\ sweep[s].pc = "classify"
  /\ \E resp \in answers :
       CASE resp.kind = "json" ->
              LET normalized == normalizeAnalysis(resp)
                  e == embedText(Gate0)
              IN  SweepApply(s, [rec |-> [Asked(sweep[s], e) EXCEPT !.pc = "embed", !.call = e.ok,
                                            !.mood = normalized.mood, !.tags = normalized.tags],
                                 g |-> e, mems |-> memories, running |-> TRUE])
         [] resp.kind = "quota" ->
              SweepApply(s, [rec |-> Finished(sweep[s], "quota"), g |-> Gate0, mems |-> memories, running |-> FALSE])
         [] OTHER ->
              SweepApply(s, Iterate(Failed(sweep[s]), Gate0, memories))
  /\ UNCHANGED <<now, ingest, brief, runs, links, attach, clusterLabelById, probe>>

ReclassifiedWhole(rec, mems) ==
  [mems EXCEPT ![rec.batch[rec.idx]] =
     [mood |-> rec.finalMood, tags |-> rec.tags, embedding |-> rec.embedding, links |-> {}]]

\* index.js:1005-1012: mood, tags and embedding of the memory are assigned and
\* the document saved; its other paths stay as stored
Reclassified(rec, mems) ==
  [mems EXCEPT ![rec.batch[rec.idx]].mood = rec.finalMood,
               ![rec.batch[rec.idx]].tags = rec.tags,
               ![rec.batch[rec.idx]].embedding = rec.embedding]

\* index.js:968-994: the mood the sweep settles on before broadening
sweepMood(scoredFamilies, mood, embedding) ==
  LET hasBest == Len(scoredFamilies) >= 1
      best == scoredFamilies[1]
      hasEmbedding == /\ isValidEmbedding(embedding)
                      /\ hasBest
                      /\ "components" \in DOMAIN best
                      /\ best.components.hasEmbedding
      threshold == IF hasEmbedding THEN 6200 ELSE 5200
  IN  IF hasBest /\ best.score >= threshold THEN best.mood ELSE mood

\* index.js:980-985: the sweep keeps only mood and score of each scored family
SweepScored(scored) == [k \in 1..Len(scored) |-> [mood |-> scored[k].mood, score |-> scored[k].score]]

SavedDespiteError(s, rec, saves) ==
  \E saved \in saves :
    IF saved = "ok"
    THEN SweepApply(s, [rec |-> [Wrote(rec) EXCEPT !.pc = "delay", !.call = FALSE],
                        g |-> Gate0, mems |-> Reclassified(rec, memories), running |-> TRUE])
    ELSE SweepApply(s, Iterate(Failed(rec), Gate0, Reclassified(rec, memories)))

\* index.js:1005-1027: memory.save() stores the memory and the delay starts, or
\* it throws and the loop goes on with the next memory
Saved(s, rec, saves) ==
  \E saved \in saves :
    IF saved = "ok"
    THEN SweepApply(s, [rec |-> [Wrote(rec) EXCEPT !.pc = "delay", !.call = FALSE],
                        g |-> Gate0, mems |-> Reclassified(rec, memories), running |-> TRUE])
    ELSE SweepApply(s, Iterate(Failed(rec), Gate0, memories))

SweepStats(rec) ==
  buildFamilyStats(SampleOf(memories, rec.existing, {rec.batch[rec.idx]}, Len(memories)), <<>>)

\* index.js:965-1017: embedText returns (each intermediate value is bound once)
SweepEmbedded(s, answers, simset, saves) ==
  /\ sweep[s].pc = "embed"
  /\ \E resp \in (IF sweep[s].call THEN answers ELSE {[kind |-> "skipped", values |-> <<>>]}) :
       \E rec \in {[sweep[s] EXCEPT !.embedding = embedTextResult(resp)]} :
         \E stats \in {SweepStats(rec)} :
           \E sims \in [1..Len(stats) -> simset] :
             \E returned \in {scoreFamilies(rec.embedding, stats, sims)} :
             LET scored == SweepScored(returned)
                 r1 == [rec EXCEPT !.scored = returned,
                                   !.finalMood = sweepMood(scored, rec.mood, rec.embedding)]
             IN  IF r1.finalMood \notin r1.existing
                 THEN LET b == broadenMoodName(Gate0, r1.finalMood)
                      IN  SweepApply(s, [rec |-> [Asked(r1, b) EXCEPT !.pc = "broaden", !.call = b.ok],
                                         g |-> b, mems |-> memories, running |-> TRUE])
                 ELSE Saved(s, r1, saves)
  /\ UNCHANGED <<now, ingest, brief, runs, links, attach, clusterLabelById, probe>>

\* index.js:999-1017: broadenMoodName returns
SweepBroadened(s, answers, saves) ==
  /\ sweep[s].pc = "broaden"
  /\ \E resp \in (IF sweep[s].call THEN answers ELSE {[kind |-> "skipped", mood |-> ""]}) :
       LET broadened == nameResult(resp)
           r1 == [sweep[s] EXCEPT !.finalMood = IF broadened # "" /\ broadened # @ THEN broadened ELSE @]
       IN  Saved(s, r1, saves)
  /\ UNCHANGED <<now, ingest, brief, runs, links, attach, clusterLabelById, probe>>

\* index.js:1017, 905-910: the one-second delay is over, the loop goes on
SweepNext(s) ==
  /\ sweep[s].pc = "delay"
  /\ SweepApply(s, Iterate([sweep[s] EXCEPT !.idx = @ + 1], Gate0, memories))
  /\ UNCHANGED <<now, ingest, brief, runs, links, attach, clusterLabelById, probe>>

\* ------------------------------------------------------------ idea links
\* String.prototype.toLowerCase on the strings of the model
toLowerCase(s) ==
  CASE s = "Joy" -> "joy"
    [] s = "Quiet Joy" -> "quiet joy"
    [] s = "Joyful Grief" -> "joyful grief"
    [] s = "Calm" -> "calm"
    [] s = "Awe" -> "awe"
    [] s = "Silence" -> "silence"
    [] OTHER -> s

\* the words of the contradiction pairs that occur in a lower-case mood
Occurring(mood) ==
  CASE mood = "joy" -> {"joy"}
    [] mood = "quiet joy" -> {"joy"}
    [] mood = "joyful grief" -> {"joy", "grief"}
    [] mood = "grief" -> {"grief"}
    [] OTHER -> {}

\* String.prototype.includes(word), for a word of the contradiction pairs
includes(mood, word) == word \in Occurring(mood)

contradictions ==
  <<<<"joy", "grief">>, <<"love", "anger">>, <<"hope", "despair">>,
    <<"fear", "relief">>, <<"light", "dark">>, <<"home", "loss">>>>

absenceTags == {"unsaid", "silence", "absence", "missing", "hollow"}

Range(seq) == {seq[k] : k \in 1..Len(seq)}

hasContradictionOneWay(aMood, bMood) ==
  \E k \in 1..Len(contradictions) :
    includes(aMood, contradictions[k][1]) /\ includes(bMood, contradictions[k][2])

\* index.js:107-109
hasContradiction(aMood, bMood) ==
  \E k \in 1..Len(contradictions) :
    \/ includes(aMood, contradictions[k][1]) /\ includes(bMood, contradictions[k][2])
    \/ includes(aMood, contradictions[k][2]) /\ includes(bMood, contradictions[k][1])

\* index.js:106
sameMood(aMood, bMood) == aMood # "" /\ bMood # "" /\ aMood = bMood

\* index.js:118-120: are there labels of a's emotional core that b's has too
sharedCore(a, b) == ({toLowerCase(l) : l \in a.core} \ {""}) \cap {toLowerCase(l) : l \in b.core}

sharedTagsDistinct(a, b) == Cardinality(Range(a.tags) \cap Range(b.tags))

\* index.js:125: the entries of a.tags that b.tags includes
sharedTags(a, b) == Cardinality({k \in 1..Len(a.tags) : a.tags[k] \in Range(b.tags)})

\* index.js:130-131
hasAbsence(a) == \E k \in 1..Len(a.tags) : toLowerCase(a.tags[k]) \in absenceTags

pairLinkAnyScore(a, b) ==
  LET aMood == toLowerCase(a.doc.mood)
      bMood == toLowerCase(b.doc.mood)
      same == sameMood(aMood, bMood)
      n == sharedTags(a.doc, b.doc)
      score == (IF hasContradiction(aMood, bMood) THEN 2 ELSE 0) + (IF same THEN 2 ELSE 0)
               + (IF sharedCore(a.doc, b.doc) # {} THEN 2 ELSE 0) + (IF n < 2 THEN n ELSE 2)
               + (IF hasAbsence(a.doc) /\ hasAbsence(b.doc) THEN 1 ELSE 0)
  IN  IF score < 1 THEN <<>>
      ELSE <<[id |-> <<"idea", a.id, b.id>>, fromId |-> a.id, toId |-> b.id,
              type |-> IF same THEN "family" ELSE "idea", score |-> score, reason |-> "shared image"]>>

\* index.js:98-155: the body of the inner loop for the pair a, b;
\* <<>> when the pair is skipped, else the link pushed
pairLink(a, b) ==
  LET aMood == toLowerCase(a.doc.mood)
      bMood == toLowerCase(b.doc.mood)
      same == sameMood(aMood, bMood)
      s1 == IF hasContradiction(aMood, bMood) THEN 2 ELSE 0
      r1 == IF hasContradiction(aMood, bMood) THEN "shared contradiction" ELSE ""
      s2 == IF same THEN s1 + 2 ELSE s1
      r2 == IF same /\ r1 = "" THEN "shared mood" ELSE r1
      core == sharedCore(a.doc, b.doc) # {}
      s3 == IF core THEN s2 + 2 ELSE s2
      r3 == IF core /\ r2 = "" THEN "shared emotional core" ELSE r2
      n == sharedTags(a.doc, b.doc)
      s4 == IF n > 0 THEN s3 + (IF n < 2 THEN n ELSE 2) ELSE s3
      r4 == IF n > 0 /\ r3 = "" THEN "shared image" ELSE r3
      absent == hasAbsence(a.doc) /\ hasAbsence(b.doc)
      score == IF absent THEN s4 + 1 ELSE s4
      reason == IF absent /\ r4 = "" THEN "shared absence" ELSE r4
  IN  IF same /\ score < 2
      THEN <<[id |-> <<"family", a.id, b.id>>, fromId |-> a.id, toId |-> b.id,
              type |-> "family", score |-> 1, reason |-> "shared family"]>>
      ELSE IF score < 2 THEN <<>>
      ELSE <<[id |-> <<"idea", a.id, b.id>>, fromId |-> a.id, toId |-> b.id,
              type |-> IF same THEN "family" ELSE "idea", score |-> score, reason |-> reason]>>

\* index.js:97-156: the inner loop for the memory at i, from j on
RECURSIVE innerLoop(_, _, _)
innerLoop(window, i, j) ==
  IF j > Len(window) THEN <<>>
  ELSE pairLink(window[i], window[j]) \o innerLoop(window, i, j + 1)

RECURSIVE candidateLinksFromSelf(_, _)
candidateLinksFromSelf(window, i) ==
  IF i > Len(window) THEN <<>>
  ELSE innerLoop(window, i, i) \o candidateLinksFromSelf(window, i + 1)

\* index.js:96-157: the outer loop, from i on
RECURSIVE candidateLinks(_, _)
candidateLinks(window, i) ==
  IF i > Len(window) THEN <<>>
  ELSE innerLoop(window, i, i + 1) \o candidateLinks(window, i + 1)

unsortedLinks(found) == found

\* the links of score `score` and below, the higher scores first, each score in the order found
RECURSIVE byScore(_, _)
byScore(found, score) ==
  IF score < 1 THEN <<>>
  ELSE SelectSeq(found, LAMBDA l : l.score = score) \o byScore(found, score - 1)

\* index.js:158: links.sort((x, y) => y.score - x.score), stable; a score is at most 2+2+2+2+1
sortLinks(found) == byScore(found, 9)

sliceShort(found) == SubSeq(found, 1, IF Len(found) < 14 THEN Len(found) ELSE 14)

\* index.js:159
slice(found) == SubSeq(found, 1, IF Len(found) < 140 THEN Len(found) ELSE 140)

\* index.js:86-160
buildIdeaLinks(window) == slice(sortLinks(candidateLinks(window, 1)))

\* index.js:164: Memory.find().sort({ createdAt: -1 }).limit(200), each with its _id
Newest(mems) ==
  [k \in 1..(IF Len(mems) < 200 THEN Len(mems) ELSE 200) |->
     [id |-> Len(mems) - k + 1, doc |-> mems[Len(mems) - k + 1]]]

NoLinks == [status |-> 0, body |-> <<>>]

\* index.js:162-170: GET /api/links
GetLinks ==
  /\ links' = [status |-> 200, body |-> buildIdeaLinks(Newest(memories))]
  /\ UNCHANGED <<now, requestCount, rateLimitResetTime, audit, memories, isReprocessing, ingest, brief, sweep, runs, attach, clusterLabelById, probe>>

\* ------------------------------------------------------ response links
\* String.prototype.trim on the strings of the model
trim(s) ==
  CASE s = " " -> ""
    [] s = " a" -> "a"
    [] s = " calm " -> "calm"
    [] OTHER -> s

\* request bodies of POST /: no text, or a string
NoText == [kind |-> "none", value |-> ""]
Text(value) == [kind |-> "string", value |-> value]

hasTextUntrimmed(text) == text.kind = "string" /\ text.value # ""

\* index.js:575: typeof text === 'string' and text.trim() is not empty
hasText(text) == text.kind = "string" /\ trim(text.value) # ""

\* index.js:572-757: POST / with the body's text; without text the handler answers 400 at once
PostIngest(i, text, draws, limit) ==
  IF hasText(text)
  THEN IngestStart(i, draws, limit)
  ELSE /\ ingest[i].pc \in {"idle", "done"}
       /\ Started(limit)
       /\ ingest' = [ingest EXCEPT ![i] = [IdleIngest EXCEPT !.pc = "done", !.status = 400]]
       /\ UNCHANGED <<now, requestCount, rateLimitResetTime, audit, memories, isReprocessing, brief, sweep, links,
                      attach, clusterLabelById, probe>>

\* request bodies of POST /:id/links: none, a string, an object with a url
NoPayload == [kind |-> "none", url |-> ""]
Payload(kind, url) == [kind |-> kind, url |-> url]

\* index.js:538-550; createdAt is the time of the request, absent (-1) for a string body
normalizeLinkPayload(payload, t) ==
  IF payload.kind = "none" THEN [null |-> TRUE, url |-> "", createdAt |-> -1]
  ELSE IF payload.kind = "string" THEN [null |-> FALSE, url |-> trim(payload.url), createdAt |-> -1]
  ELSE LET url == trim(payload.url)
       IN  IF url = "" THEN [null |-> TRUE, url |-> "", createdAt |-> -1]
           ELSE [null |-> FALSE, url |-> url, createdAt |-> t]

findOrCreate(mems, id, linkPayload) ==
  IF id \in 1..Len(mems)
  THEN [memory |-> TRUE, mems |-> [mems EXCEPT ![id].links = @ \cup {linkPayload}]]
  ELSE [memory |-> TRUE,
        mems |-> Append(mems, [mood |-> "Fragment", tags |-> {}, embedding |-> <<>>, links |-> {linkPayload}])]

\* index.js:868-872: Memory.findByIdAndUpdate(id, {$addToSet: {links: linkPayload}}, {new: true})
findByIdAndUpdate(mems, id, linkPayload) ==
  IF id \in 1..Len(mems)
  THEN [memory |-> TRUE, mems |-> [mems EXCEPT ![id].links = @ \cup {linkPayload}]]
  ELSE [memory |-> FALSE, mems |-> mems]

NoAttach == [status |-> 0, id |-> 0]

\* index.js:863-879: POST /:id/links
AttachLink(id, payload, limit) ==
  /\ Started(limit)
  /\ LET linkPayload == normalizeLinkPayload(payload, now)
     IN  IF linkPayload.null
         THEN attach' = [status |-> 400, id |-> id] /\ memories' = memories
         ELSE LET r == findByIdAndUpdate(memories, id, [url |-> linkPayload.url, createdAt |-> linkPayload.createdAt])
              IN  /\ memories' = r.mems
                  /\ attach' = [status |-> IF r.memory THEN 200 ELSE 404, id |-> id]
  /\ UNCHANGED <<now, requestCount, rateLimitResetTime, audit, isReprocessing, ingest, brief, sweep, links,
                 clusterLabelById, probe>>

\* ------------------------------------------------- the client's clusters
\* App.jsx:17-21, on strings
normalizeMood(mood) ==
  IF mood = "" THEN "Fragment"
  ELSE LET trimmed == trim(mood) IN IF trimmed = "" THEN "Fragment" ELSE trimmed

\* App.jsx:104-107: every listed memory is its own parent
parentOf(mems) == [id \in {mems[k].id : k \in 1..Len(mems)} |-> id]

RECURSIVE rootOf(_, _)
rootOf(parent, id) == IF parent[id] = id THEN id ELSE rootOf(parent, parent[id])

RECURSIVE compress(_, _, _)
compress(parent, current, root) ==
  IF current = root THEN parent
  ELSE compress([parent EXCEPT ![current] = root], parent[current], root)

\* App.jsx:109-122: the root of id and the map with the path to it shortened
find(parent, id) ==
  IF id \notin DOMAIN parent THEN [root |-> id, parent |-> parent]
  ELSE LET root == rootOf(parent, id) IN [root |-> root, parent |-> compress(parent, id, root)]

unionBelowRoot(parent, a, b) ==
  IF a \notin DOMAIN parent \/ b \notin DOMAIN parent THEN parent
  ELSE LET rootA == find(parent, a)
           rootB == find(rootA.parent, b)
       IN  IF rootA.root # rootB.root THEN [rootB.parent EXCEPT ![b] = rootA.root] ELSE rootB.parent

\* App.jsx:124-129
union(parent, a, b) ==
  IF a \notin DOMAIN parent \/ b \notin DOMAIN parent THEN parent
  ELSE LET rootA == find(parent, a)
           rootB == find(rootA.parent, b)
       IN  IF rootA.root # rootB.root THEN [rootB.parent EXCEPT ![rootB.root] = rootA.root] ELSE rootB.parent

RECURSIVE unionAllUntilMissing(_, _, _, _)
unionAllUntilMissing(parent, lnks, lo, hi) ==
  IF lo > hi THEN parent
  ELSE IF lnks[lo].fromId = 0 \/ lnks[lo].toId = 0 THEN parent
  ELSE unionAllUntilMissing(union(parent, lnks[lo].fromId, lnks[lo].toId), lnks, lo + 1, hi)

\* App.jsx:131-134: the links from lo to hi, in order; an id of 0 is a missing id
RECURSIVE unionAll(_, _, _, _)
unionAll(parent, lnks, lo, hi) ==
  IF lo > hi THEN parent
  ELSE IF lo = hi
       THEN (IF lnks[lo].fromId = 0 \/ lnks[lo].toId = 0 THEN parent
             ELSE union(parent, lnks[lo].fromId, lnks[lo].toId))
       ELSE LET mid == (lo + hi) \div 2
            IN  unionAll(unionAll(parent, lnks, lo, mid), lnks, mid + 1, hi)

\* App.jsx:136-144: the counts of one root, a Map in insertion order
RECURSIVE countMoods(_, _, _, _, _)
countMoods(mems, parent, root, k, counts) ==
  IF k > Len(mems) THEN counts
  ELSE IF find(parent, mems[k].id).root # root THEN countMoods(mems, parent, root, k + 1, counts)
  ELSE LET mood == normalizeMood(mems[k].mood)
           at == {j \in 1..Len(counts) : counts[j].mood = mood}
       IN  countMoods(mems, parent, root, k + 1,
             IF at = {} THEN Append(counts, [mood |-> mood, count |-> 1])
             ELSE [j \in 1..Len(counts) |-> IF j \in at THEN [counts[j] EXCEPT !.count = @ + 1] ELSE counts[j]])

RECURSIVE topOfLast(_, _, _, _)
topOfLast(counts, k, topMood, topCount) ==
  IF k > Len(counts) THEN topMood
  ELSE IF counts[k].count >= topCount THEN topOfLast(counts, k + 1, counts[k].mood, counts[k].count)
  ELSE topOfLast(counts, k + 1, topMood, topCount)

\* App.jsx:152-159: counts.forEach, the first of the highest counts is kept
RECURSIVE topOf(_, _, _, _)
topOf(counts, k, topMood, topCount) ==
  IF k > Len(counts) THEN topMood
  ELSE IF counts[k].count > topCount THEN topOf(counts, k + 1, counts[k].mood, counts[k].count)
  ELSE topOf(counts, k + 1, topMood, topCount)

\* App.jsx:103-164; mems are the listed memories as [id, mood], lnks the links as [fromId, toId]
buildClusterMap(mems, lnks) ==
  LET parent == unionAll(parentOf(mems), lnks, 1, Len(lnks))
      label(k) ==
        LET counts == countMoods(mems, parent, find(parent, mems[k].id).root, 1, <<>>)
            topMood == topOf(counts, 1, "", -1)
        IN  IF topMood # "" THEN topMood ELSE normalizeMood(mems[k].mood)
  IN  [id \in DOMAIN parent |-> label(CHOOSE k \in 1..Len(mems) : mems[k].id = id)]

\* ------------------------------------------------------------ theme axes
\* An axis as it arrives: an array of entries or something else; an entry
\* carries its label ("" for a label that is no string), its weight in 1/100
\* and whether the weight is a finite number.
Entry(label, weight) == [label |-> label, weight |-> weight, finite |-> TRUE]
Malformed(label) == [label |-> label, weight |-> 0, finite |-> FALSE]
Axis(entries) == [isArray |-> TRUE, entries |-> entries]
NotAnArray == [isArray |-> FALSE, entries |-> <<>>]

\* index.js:259-262: the entry with its label trimmed and its weight made a number >= 0
RECURSIVE cleanEntries(_, _)
cleanEntries(entries, k) ==
  IF k > Len(entries) THEN <<>>
  ELSE LET label == trim(entries[k].label)
           weight == IF entries[k].finite THEN entries[k].weight ELSE 0
       IN  (IF label # "" THEN <<[label |-> label, weight |-> IF weight > 0 THEN weight ELSE 0]>> ELSE <<>>)
           \o cleanEntries(entries, k + 1)

RECURSIVE sumWeights(_, _)
sumWeights(items, k) == IF k > Len(items) THEN 0 ELSE items[k].weight + sumWeights(items, k + 1)

fallbackAxis(fallbackLabel) == <<[label |-> fallbackLabel, weight |-> [num |-> 1, den |-> 1]]>>

normalizeAxisLateSlice(entries, fallbackLabel) ==
  IF ~entries.isArray THEN fallbackAxis(fallbackLabel)
  ELSE LET all == cleanEntries(entries.entries, 1)
           cleaned == SubSeq(all, 1, IF Len(all) < 4 THEN Len(all) ELSE 4)
           total == sumWeights(all, 1)
       IN  IF cleaned = <<>> \/ total <= 0 THEN fallbackAxis(fallbackLabel)
           ELSE [k \in 1..Len(cleaned) |->
                   [label |-> cleaned[k].label, weight |-> [num |-> cleaned[k].weight, den |-> total]]]

\* index.js:253-271; a weight of the result is the fraction num / den
normalizeAxis(entries, fallbackLabel) ==
  IF ~entries.isArray THEN fallbackAxis(fallbackLabel)
  ELSE LET all == cleanEntries(entries.entries, 1)
           cleaned == SubSeq(all, 1, IF Len(all) < 4 THEN Len(all) ELSE 4)
           total == sumWeights(cleaned, 1)
       IN  IF cleaned = <<>> \/ total <= 0 THEN fallbackAxis(fallbackLabel)
           ELSE [k \in 1..Len(cleaned) |->
                   [label |-> cleaned[k].label, weight |-> [num |-> cleaned[k].weight, den |-> total]]]

AxisNames == {"emotionalCore", "narrativeState", "relationalFocus", "temporalOrientation", "spatialIntimacy"}

fallbackLabelOf(axis) ==
  CASE axis = "emotionalCore" -> "memory"
    [] axis = "narrativeState" -> "unfinished"
    [] axis = "relationalFocus" -> "self"
    [] axis = "temporalOrientation" -> "memory"
    [] axis = "spatialIntimacy" -> "private"

\* index.js:273-281; themeVector maps each axis name to what the object holds
\* under it (NotAnArray for undefined, as for an undefined themeVector)
normalizeThemeVector(themeVector) ==
  [axis \in AxisNames |-> normalizeAxis(themeVector[axis], fallbackLabelOf(axis))]

\* index.js:317-327: the Map of an axis, its entries in insertion order
RECURSIVE axisToMapFrom(_, _, _)
axisToMapFrom(entries, k, map) ==
  IF k > Len(entries) THEN map
  ELSE LET label == toLowerCase(trim(entries[k].label))
           weight == IF entries[k].finite THEN entries[k].weight ELSE 0
           at == {j \in 1..Len(map) : map[j].label = label}
       IN  axisToMapFrom(entries, k + 1,
             IF label = "" \/ weight <= 0 THEN map
             ELSE IF at = {} THEN Append(map, [label |-> label, weight |-> weight])
             ELSE [j \in 1..Len(map) |-> IF j \in at THEN [map[j] EXCEPT !.weight = @ + weight] ELSE map[j]])

axisToMap(axis) == IF ~axis.isArray THEN <<>> ELSE axisToMapFrom(axis.entries, 1, <<>>)

\* Map.prototype.get(label) || 0
mapGet(map, label) ==
  LET at == {j \in 1..Len(map) : map[j].label = label}
  IN  IF at = {} THEN 0 ELSE map[CHOOSE j \in at : TRUE].weight

\* index.js:338-341: leftMap.forEach, the products added up; in 1/10000
RECURSIVE addProducts(_, _, _)
addProducts(leftMap, rightMap, k) ==
  IF k > Len(leftMap) THEN 0
  ELSE leftMap[k].weight * mapGet(rightMap, leftMap[k].label) + addProducts(leftMap, rightMap, k + 1)

axisSimilarityFirstLabel(leftAxis, rightAxis) ==
  LET leftMap == axisToMap(leftAxis)
      rightMap == axisToMap(rightAxis)
  IN  IF leftMap = <<>> \/ rightMap = <<>> THEN 0
      ELSE leftMap[1].weight * mapGet(rightMap, leftMap[1].label)

\* index.js:334-344
axisSimilarity(leftAxis, rightAxis) ==
  LET leftMap == axisToMap(leftAxis)
      rightMap == axisToMap(rightAxis)
  IN  IF leftMap = <<>> \/ rightMap = <<>> THEN 0 ELSE addProducts(leftMap, rightMap, 1)

\* --------------------------------------------------------- pure functions
NoProbe == [fn |-> "none"]

\* App.jsx:245: the component renders the labels of its memories and links;
\* probe.parent keeps the parent Map as the links left it (App.jsx:134)
Render ==
  /\ probe.fn = "buildClusterMap" /\ ~probe.done
  /\ clusterLabelById' = buildClusterMap(probe.memories, probe.links)
  /\ probe' = [probe EXCEPT !.done = TRUE,
                            !.parent = unionAll(parentOf(probe.memories), probe.links, 1, Len(probe.links))]
  /\ UNCHANGED <<now, requestCount, rateLimitResetTime, audit, memories, isReprocessing, ingest, brief, sweep, runs,
                 links, attach>>

\* index.js:346-351: themeSimilarity compares one axis of two theme vectors
Similarity ==
  /\ probe.fn = "axisSimilarity" /\ ~probe.done
  /\ probe' = [probe EXCEPT !.done = TRUE, !.out = axisSimilarity(probe.left, probe.right)]
  /\ UNCHANGED <<now, requestCount, rateLimitResetTime, audit, memories, isReprocessing, ingest, brief, sweep, runs,
                 links, attach, clusterLabelById>>

\* index.js:248: normalizeAnalysis normalizes the theme vector of an analysis
Normalize ==
  /\ probe.fn = "normalizeThemeVector" /\ ~probe.done
  /\ probe' = [probe EXCEPT !.done = TRUE, !.out = normalizeThemeVector(probe.themeVector)]
  /\ UNCHANGED <<now, requestCount, rateLimitResetTime, audit, memories, isReprocessing, ingest, brief, sweep, runs,
                 links, attach, clusterLabelById>>

\* index.js:448-452: scoreFamilies scores the candidate against one family
Score ==
  /\ probe.fn = "scoreFamilyMatch" /\ ~probe.done
  /\ probe' = [probe EXCEPT !.done = TRUE,
                            !.out = scoreFamilyMatch(probe.candidate, probe.family, probe.sim)]
  /\ UNCHANGED <<now, requestCount, rateLimitResetTime, audit, memories, isReprocessing, ingest, brief, sweep, runs,
                 links, attach, clusterLabelById>>

\* ------------------------------------------------ the provider's answers
Usable == <<1, 0, 0, 0, 0, 0, 0, 0>>

Json(mood, tags) == [kind |-> "json", mood |-> mood, tags |-> tags, hasTags |-> TRUE]
Failure(kind) == [kind |-> kind, mood |-> "", tags |-> {}, hasTags |-> FALSE]
Values(v) == [kind |-> "values", values |-> v]
Sim(e, t, g) == [e |-> e, t |-> t, g |-> g]

\* the server under load: few answers, every kind of them
SrvDraws == {1}
SrvAnalyses == {Json("Grief", {"offline"}), Failure("garbage"), Failure("quota")}
SrvEmbeds == {Values(Usable)}
SrvNames == {Json("Awe", {})}
SrvSims == {Sim(0, 0, 0)}
SrvBriefs == {"json"}

SrvCounts == {0, 13}
SrvStores == {<<>>, <<[mood |-> "Joy", tags |-> {"offline"}, embedding |-> Usable, links |-> {}]>>}

IngestIds == {1, 2}
SweepIds == {1, 2}

\* The server in its first window, after `count` granted calls that found and
\* left the archive `mems` (count = 0, mems = <<>> is the state after start-up).
Loaded(count, mems) ==
  /\ now = 0
  /\ requestCount = count
  /\ rateLimitResetTime = now + WindowMs
  /\ audit = [granted |-> count, calls |-> count, lastOk |-> TRUE,
              stamps |-> IF count = 0 THEN <<>> ELSE <<[at |-> now, n |-> count]>>,
              lastBefore |-> IF count = 0 THEN 0 ELSE count - 1, lastElapsed |-> FALSE, prevOk |-> TRUE]
  /\ memories = mems
  /\ runs = 0

Idle ==
  /\ isReprocessing = FALSE
  /\ ingest = [i \in IngestIds |-> IdleIngest]
  /\ brief = IdleBrief
  /\ sweep = [s \in SweepIds |-> IdleSweep]
  /\ links = NoLinks
  /\ attach = NoAttach
  /\ clusterLabelById = <<>>

Init ==
  /\ \E count \in SrvCounts, mems \in SrvStores : (count = 0 \/ mems # <<>>) /\ Loaded(count, mems)
  /\ Idle
  /\ probe = NoProbe

Next ==
  \/ Tick(WindowMs)
  \/ \E i \in IngestIds : IngestStart(i, SrvDraws, MaxRuns)
  \/ \E i \in IngestIds : ClassifyDone(i, SrvAnalyses, SrvDraws)
  \/ \E i \in IngestIds : EmbedDone(i, SrvEmbeds, SrvSims)
  \/ \E i \in IngestIds : ProposeDone(i, SrvNames)
  \/ \E i \in IngestIds : BroadenDone(i, SrvNames)
  \/ \E mood \in {"", "Grief", "Joy"} : FamilyBrief(mood, MaxRuns)
  \/ \E memoryId \in 1..(Len(memories) + 1) : CompetitionBrief(memoryId, MaxRuns)
  \/ BriefDone(SrvBriefs)
  \/ \E s \in SweepIds : SweepStart(s)
  \/ \E s \in SweepIds : SweepFound(s, {"found"})
  \/ \E s \in SweepIds : SweepClassified(s, SrvAnalyses)
  \/ \E s \in SweepIds : SweepEmbedded(s, SrvEmbeds, SrvSims, {"ok"})
  \/ \E s \in SweepIds : SweepBroadened(s, SrvNames, {"ok"})
  \/ \E s \in SweepIds : SweepNext(s)

Spec == Init /\ [][Next]_vars

\* ------------------------------------------------- the store under load
\* The same server within one window, response links attached as well.
SrvPayloads == {NoPayload, Payload("object", " "), Payload("object", " a"), Payload("string", "a")}
SrvTexts == {NoText, Text(""), Text(" "), Text(" a")}

NextStore ==
  \/ \E i \in IngestIds, text \in SrvTexts : PostIngest(i, text, SrvDraws, MaxRuns)
  \/ \E i \in IngestIds : ClassifyDone(i, SrvAnalyses, SrvDraws)
  \/ \E i \in IngestIds : EmbedDone(i, SrvEmbeds, SrvSims)
  \/ \E i \in IngestIds : ProposeDone(i, SrvNames)
  \/ \E i \in IngestIds : BroadenDone(i, SrvNames)
  \/ \E mood \in {"", "Grief", "Joy"} : FamilyBrief(mood, MaxRuns)
  \/ \E memoryId \in 1..(Len(memories) + 1) : CompetitionBrief(memoryId, MaxRuns)
  \/ BriefDone(SrvBriefs)
  \/ \E s \in SweepIds : SweepStart(s)
  \/ \E s \in SweepIds : SweepFound(s, {"found"})
  \/ \E s \in SweepIds : SweepClassified(s, SrvAnalyses)
  \/ \E s \in SweepIds : SweepEmbedded(s, SrvEmbeds, SrvSims, {"ok"})
  \/ \E s \in SweepIds : SweepBroadened(s, SrvNames, {"ok"})
  \/ \E s \in SweepIds : SweepNext(s)
  \/ \E id \in 1..(Len(memories) + 1), payload \in SrvPayloads : AttachLink(id, payload, MaxRuns)

SpecStore == Init /\ [][NextStore]_vars

\* ------------------------------------------------- ingestions side by side
\* The same server with no timer firing: two POST / handlers, each suspended
\* at its awaits while the other runs.
NextIngest ==
  \/ \E i \in IngestIds : IngestStart(i, SrvDraws, MaxRuns)
  \/ \E i \in IngestIds : ClassifyDone(i, SrvAnalyses, SrvDraws)
  \/ \E i \in IngestIds : EmbedDone(i, SrvEmbeds, SrvSims)
  \/ \E i \in IngestIds : ProposeDone(i, SrvNames)
  \/ \E i \in IngestIds : BroadenDone(i, SrvNames)

SpecIngest == Init /\ [][NextIngest]_vars

\* ---------------------------------------------------------- the gate alone
\* The server from start-up, asked for briefs only: every request is one call
\* of the gate, the clock moves by half a window.
GateStore == <<[mood |-> "Joy", tags |-> {"sea"}, embedding |-> Usable, links |-> {}]>>
AllBriefs == {"json", "quota", "garbage"}

InitGate == Loaded(0, GateStore) /\ Idle /\ probe = NoProbe

NextGate ==
  \/ Tick(WindowMs \div 2)
  \/ \E mood \in {"", "Grief", "Joy"} : FamilyBrief(mood, MaxGateRuns)
  \/ \E memoryId \in 1..(Len(memories) + 1) : CompetitionBrief(memoryId, MaxGateRuns)
  \/ BriefDone(AllBriefs)

SpecGate == InitGate /\ [][NextGate]_vars

\* ------------------------------------------------- one ingestion, in full
Zero8 == <<0, 0, 0, 0, 0, 0, 0, 0>>
AllDraws == 1..Len(OFFLINE_MOODS)
DecAnalyses ==
  {Json("Grief", {"sea"}), Json("Joy", {"sea"}),
   [kind |-> "json", mood |-> "", tags |-> {}, hasTags |-> FALSE],
   Failure("garbage"), Failure("quota")}
DecEmbeds == {Values(Usable), Values(Zero8), Values(<<1, 1>>), [kind |-> "error", values |-> <<>>]}
DecNames == {Json("Awe", {}), Json("Grief", {}), Json("", {}), Failure("garbage")}
DecSims == {Sim(80, 80, 80), Sim(70, 70, 70), Sim(62, 62, 62), Sim(57, 57, 57), Sim(56, 56, 56),
            Sim(100, 40, 20), Sim(0, 0, 0)}
DecCounts == {0, 11, 12, 13, 14}

Mem(mood, embedding) == [mood |-> mood, tags |-> {"sea"}, embedding |-> embedding, links |-> {}]
DecStores ==
  {<<>>,
   <<Mem("Grief", Usable)>>,
   <<Mem("Grief", Sentinel)>>,
   <<Mem("Grief", Usable), Mem("Joy", Usable)>>,
   <<Mem("Joy", Sentinel), Mem("Grief", Usable)>>}

InitDecide ==
  /\ \E count \in DecCounts, mems \in DecStores : Loaded(count, mems)
  /\ Idle
  /\ probe = NoProbe

NextDecide ==
  \/ IngestStart(1, AllDraws, MaxDecisions)
  \/ ClassifyDone(1, DecAnalyses, AllDraws)
  \/ EmbedDone(1, DecEmbeds, DecSims)
  \/ ProposeDone(1, DecNames)
  \/ BroadenDone(1, DecNames)

SpecDecide == InitDecide /\ [][NextDecide]_vars

\* ------------------------------------------------- the links of an archive
\* The server after a restart, its archive kept: memories as ingestion saves
\* them (a mood, the labels of the emotional core, the tags as listed).
Doc(mood, core, tags) == [mood |-> mood, core |-> core, tags |-> tags, embedding |-> Sentinel, links |-> {}]

LinkDocs ==
  {Doc("Joy", {"delight"}, <<>>),
   Doc("Joy", {"calm"}, <<"sea">>),
   Doc("grief", {"sorrow"}, <<"Silence">>),
   Doc("Quiet Joy", {"calm"}, <<"sea", "sea", "hollow">>),
   Doc("Awe", {"memory"}, <<"salt">>),
   Doc("Joyful Grief", {"longing"}, <<>>),
   Doc("joy", {"wonder"}, <<"salt">>)}

\* up to MaxMixed memories of any kind, then more of the last kind: a few, or
\* enough of them to fill the window up to the cap of the answer
TailLengths == (0..2) \cup ((MaxWindow - MaxMixed - 1)..(MaxWindow - MaxMixed))
LinkStores ==
  {<<>>} \cup
  UNION {{p \o [k \in 1..n |-> p[m]] : p \in [1..m -> LinkDocs], n \in TailLengths} :
         m \in 1..MaxMixed}

InitLinks ==
  /\ \E mems \in LinkStores : Loaded(0, mems)
  /\ Idle
  /\ probe = NoProbe

NextLinks == GetLinks

SpecLinks == InitLinks /\ [][NextLinks]_vars

\* ------------------------------------------------ functions on their own
\* The functions that read no state, applied to arguments of every shape the
\* code distinguishes.
MaxNodes == 3
MaxLinks == 2

SeqsUpTo(S, n) == UNION {[1..m -> S] : m \in 0..n}

\* the memories the client lists, newest first, and links between them as the
\* server orders their ends; 0 is a missing id, MaxNodes + 1 the id of a memory not listed
ClientMoods == {"Joy", "Grief", ""}
ClientMemories == {[k \in 1..MaxNodes |-> [id |-> k, mood |-> row[k]]] : row \in [1..MaxNodes -> ClientMoods]}
ClientEnds ==
  {l \in [fromId : 0..MaxNodes, toId : 1..(MaxNodes + 1)] :
     /\ l.fromId < l.toId
     /\ (l.fromId = 0 => l.toId = 1)
     /\ (l.toId = MaxNodes + 1 => l.fromId = 1)}
ClientLinks == SeqsUpTo(ClientEnds, MaxLinks)

\* axes of few entries: labels that differ by case or blanks only, a weight of
\* zero, an entry with neither a label nor a finite weight
MaxAxis == 2
SimEntries == {Entry("calm", 30), Entry("Calm", 70), Entry("sorrow", 50), Entry(" calm ", 0), Malformed("")}
SimAxes == {NotAnArray} \cup {Axis(entries) : entries \in SeqsUpTo(SimEntries, MaxAxis)}

\* axes of up to MaxEntries entries: a few of any kind, then more of one kind
MaxEntries == 5
NormEntries ==
  {Entry("calm", 30), Entry("sorrow", 50), Entry(" calm ", 0), Entry("", 40), Entry("sorrow", -10), Malformed("calm")}
NormAxes ==
  {NotAnArray} \cup
  {Axis(p \o [k \in 1..n |-> e]) : p \in SeqsUpTo(NormEntries, MaxAxis),
                                     e \in NormEntries, n \in 0..(MaxEntries - MaxAxis)}

\* a theme vector with the axis `given` holding `a` and the other axes missing
ThemeVector(given, a) == [axis \in AxisNames |-> IF axis = given THEN a ELSE NotAnArray]

\* sub-scores from 0 to 1, with and without usable embeddings
SubScores == {0, 1, 50, 100}

InitPure ==
  /\ Loaded(0, <<>>)
  /\ Idle
  /\ \/ \E mems \in ClientMemories, lnks \in ClientLinks :
          probe = [fn |-> "buildClusterMap", memories |-> mems, links |-> lnks, done |-> FALSE, parent |-> <<>>]
     \/ \E l \in SimAxes, r \in SimAxes :
          probe = [fn |-> "axisSimilarity", left |-> l, right |-> r, done |-> FALSE, out |-> 0]
     \/ \E given \in AxisNames, a \in NormAxes :
          probe = [fn |-> "normalizeThemeVector", themeVector |-> ThemeVector(given, a), done |-> FALSE, out |-> <<>>]
     \/ \E c \in {Usable, Sentinel}, f \in {Usable, Sentinel}, e \in SubScores, t \in SubScores, g \in SubScores :
          probe = [fn |-> "scoreFamilyMatch", candidate |-> c, family |-> [mood |-> "Joy", embedding |-> f],
                   sim |-> Sim(e, t, g), done |-> FALSE, out |-> <<>>]

NextPure == Render \/ Similarity \/ Normalize \/ Score

SpecPure == InitPure /\ [][NextPure]_vars

\* ------------------------------------------- the cluster labels on their own
\* The client with memories of two moods and every choice of links between
\* them, one list for all the lists that hold the same links.
OrderMemories == {mems \in ClientMemories : \A k \in 1..Len(mems) : mems[k].mood # ""}
OrderLinks ==
  {lnks \in ClientLinks :
     \A k \in 1..(Len(lnks) - 1) :
       \/ lnks[k].fromId < lnks[k + 1].fromId
       \/ lnks[k].fromId = lnks[k + 1].fromId /\ lnks[k].toId <= lnks[k + 1].toId}

InitOrder ==
  /\ Loaded(0, <<>>)
  /\ Idle
  /\ \E mems \in OrderMemories, lnks \in OrderLinks :
       probe = [fn |-> "buildClusterMap", memories |-> mems, links |-> lnks, done |-> FALSE, parent |-> <<>>]

NextOrder == Render

SpecOrder == InitOrder /\ [][NextOrder]_vars

\* ------------------------------------------------------- the sweep alone
\* The server after a restart with memories still tagged 'offline', alone or
\* beside a classified one; only the timers fire. Every answer of the provider
\* and of the store occurs, and similarities on either side of the two reuse
\* thresholds (0.60 by the embedding alone, 0.62 and 0.52 on every count).
Offline(mood) == [mood |-> mood, tags |-> {"offline"}, embedding |-> Sentinel, links |-> {}]

SwpAnalyses == {Json("Awe", {"sea"}), Failure("garbage"), Failure("quota")}
SwpEmbeds == {Values(Usable), Values(Zero8)}
SwpNames == {Json("Grief", {})}
SwpSims == {Sim(100, 0, 0), Sim(62, 62, 62), Sim(52, 52, 52)}
SwpCounts == {0, 13}
SwpStores ==
  {<<Offline("Joy"), Mem("Grief", Usable)>>,
   <<Offline("Joy"), Offline("Grief")>>}
SwpOutcomes == {"ok", "error"}

InitSweep ==
  /\ \E count \in SwpCounts, mems \in SwpStores : Loaded(count, mems)
  /\ Idle
  /\ probe = NoProbe

NextSweep ==
  \/ \E s \in SweepIds : SweepStart(s)
  \/ \E s \in SweepIds : SweepFound(s, {"found", "error"})
  \/ \E s \in SweepIds : SweepClassified(s, SwpAnalyses)
  \/ \E s \in SweepIds : SweepEmbedded(s, SwpEmbeds, SwpSims, SwpOutcomes)
  \/ \E s \in SweepIds : SweepBroadened(s, SwpNames, SwpOutcomes)
  \/ \E s \in SweepIds : SweepNext(s)

SpecSweep == InitSweep /\ [][NextSweep]_vars

\* Every awaited call of a sweep settles (the store and the provider answer or
\* reject) and the one-second timer fires; nothing makes a timer start a sweep.
SweepSteps ==
  \E s \in SweepIds :
    \/ SweepFound(s, {"found", "error"})
    \/ SweepClassified(s, SwpAnalyses)
    \/ SweepEmbedded(s, SwpEmbeds, SwpSims, SwpOutcomes)
    \/ SweepBroadened(s, SwpNames, SwpOutcomes)
    \/ SweepNext(s)

SpecSweepFair == SpecSweep /\ WF_vars(SweepSteps)

\* ================================================================= claims
Busy ==
  Cardinality({i \in IngestIds : ingest[i].pc \notin {"idle", "done"}})
  + Cardinality({s \in SweepIds : sweep[s].pc # "idle"})
  + (IF brief.pc = "call" THEN 1 ELSE 0)

\* C1 (SpecGate): a call of the gate is granted exactly when the window has
\* elapsed or fewer than 14 calls were granted in it, so the 15th call of a
\* window is denied; the first call at or after the reset time is granted and
\* restarts the counter at 1.
C1_QuotaPerWindow ==
  /\ audit.lastOk <=> (audit.lastElapsed \/ audit.lastBefore < 14)
  /\ audit.lastElapsed => (audit.lastOk /\ audit.granted = 1 /\ requestCount = 1)

\* 14 grants, the 15th call denied, then a call at or after the reset time granted
C1_Witness ==
  audit.lastElapsed /\ audit.lastOk /\ ~audit.prevOk /\ audit.lastBefore = 14

\* C2 (Spec): under every interleaving of ingestions, briefs and sweeps, the
\* number of acquires granted since the last window reset never exceeds 14.
C2_AtMostQuotaGranted == audit.granted <= 14

\* two handlers in flight, the window's 14 slots granted and the last call denied
C2_Witness == audit.granted = 14 /\ ~audit.lastOk /\ Busy >= 2

\* C3 (Spec): the requests sent to the external provider in the current window
\* are at most the acquires granted in it: no request goes out without its own grant.
C3_CallsWithinGrants == audit.calls <= audit.granted

\* an ingestion whose classification was sent and whose embedding request was skipped on a denial
C3_Witness ==
  \E i \in IngestIds :
    /\ ingest[i].pc = "embed" /\ ~ingest[i].call /\ ingest[i].called = {"classify"}
    /\ ~audit.lastOk /\ audit.calls = 14

\* C4 (Spec): at most one sweep is in flight, and a timer that fires while one
\* is in flight returns at once: no memory read or written, the gate untouched.
SkippedNow(s) == sweep'[s].outcome = "skipped" /\ sweep[s].outcome # "skipped"

C4_SingleSweep ==
  /\ [](Cardinality({s \in SweepIds : sweep[s].pc # "idle"}) <= 1)
  /\ [][\A s \in SweepIds :
          SkippedNow(s) =>
            /\ isReprocessing /\ isReprocessing'
            /\ sweep'[s].pc = "idle"
            /\ UNCHANGED <<memories, requestCount, rateLimitResetTime, audit>>]_vars

\* a timer fired while the other invocation waited for the provider
C4_Witness ==
  \E s, t \in SweepIds :
    s # t /\ sweep[s].outcome = "skipped" /\ sweep[s].pc = "idle" /\ sweep[t].pc = "classify"

\* C5 (Spec): once an acquire of a sweep is denied, that sweep writes no memory
\* and sends no request any more.
C5_SweepStopsAtDenial == \A s \in SweepIds : sweep[s].late = {}

\* ---- the decision of an ingestion (SpecDecide)
Best(r) == r.scored[1]
Runner(r) == IF Len(r.scored) >= 2 THEN r.scored[2].score ELSE 0
Backed(r) == isValidEmbedding(r.embedding) /\ Best(r).hasEmbedding
Bar(r) == IF Backed(r) THEN 6200 ELSE 5200
StrongBar(r) == IF Backed(r) THEN 7200 ELSE 6000
OwnScore(r) == r.scored[IndexOfMood(r.scored, r.mood, 1)].score
Scored(r) == r.pc \in {"propose", "broaden", "done"} /\ ~r.offlineMode /\ r.existing # {} /\ r.scored # <<>>
Reuse(r) == Best(r).score >= Bar(r) /\ (Best(r).score - Runner(r) >= 800 \/ Best(r).score >= StrongBar(r))
SoftMatch(r) == IndexOfMood(r.scored, r.mood, 1) # 0 /\ OwnScore(r) >= Bar(r) - 500

\* C6 (SpecDecide): with a non-empty archive and no offline fallback the result
\* is the best family, not new, decided by 'similarity', exactly when
\* best >= threshold and (best - second >= 0.08 or best >= strongThreshold).
C6_ReuseRule ==
  \A i \in IngestIds :
    LET r == ingest[i]
    IN  Scored(r) =>
          ((r.decidedBy = "similarity" /\ r.finalMood = Best(r).mood /\ ~r.isNewFamily) <=> Reuse(r))

\* an embedding-backed best score of 0.80 with no runner-up, saved under the best family
C6_Witness ==
  \E i \in IngestIds :
    LET r == ingest[i]
    IN  /\ Scored(r) /\ r.pc = "done" /\ Backed(r)
        /\ Best(r).score = 8000 /\ Runner(r) = 0
        /\ r.decidedBy = "similarity"
        /\ memories[Len(memories)].mood = Best(r).mood

\* C7 (SpecDecide): when the reuse rule does not fire and the suggested mood is
\* not an existing family, step 5 decides 'ai-new': the suggested mood, new.
C7_SuggestedNew ==
  \A i \in IngestIds :
    LET r == ingest[i]
    IN  (Scored(r) /\ ~Reuse(r) /\ r.mood \notin r.existing) =>
          r.step5 = [decidedBy |-> "ai-new", finalMood |-> r.mood, isNewFamily |-> TRUE]

\* a new name accepted although the best family scores above the threshold
C7_Witness ==
  \E i \in IngestIds :
    LET r == ingest[i]
    IN  Scored(r) /\ r.step5.decidedBy = "ai-new" /\ Best(r).score >= Bar(r) /\ r.pc = "done"

\* C8 (SpecDecide): when the reuse rule does not fire and the suggested mood is
\* an existing family scoring >= threshold - 0.05, step 5 decides 'ai-existing':
\* the suggested mood, not new, whatever the best family is; one decidedBy results.
C8_SuggestedExisting ==
  \A i \in IngestIds :
    LET r == ingest[i]
    IN  /\ (Scored(r) /\ ~Reuse(r) /\ r.mood \in r.existing /\ SoftMatch(r)) =>
             r.step5 = [decidedBy |-> "ai-existing", finalMood |-> r.mood, isNewFamily |-> FALSE]
        /\ Scored(r) => r.decidedBy \in {"similarity", "ai-new", "ai-existing", "ai-override"}

\* the suggested family accepted although another family scores strictly higher
C8_Witness ==
  \E i \in IngestIds :
    LET r == ingest[i]
    IN  /\ Scored(r) /\ r.pc = "done" /\ r.decidedBy = "ai-existing"
        /\ Best(r).mood # r.mood /\ Best(r).score > OwnScore(r)

\* C9 (SpecDecide): when 5a, 5b and 5c fail the decision is 'ai-override'; once
\* the proposal has returned, a non-empty name is the mood, new exactly when it
\* is not an existing family; a denied, failed or empty proposal leaves the
\* suggested mood, not new.
C9_Override ==
  \A i \in IngestIds :
    LET r == ingest[i]
    IN  (Scored(r) /\ ~Reuse(r) /\ r.mood \in r.existing /\ ~SoftMatch(r)) =>
          /\ r.decidedBy = "ai-override"
          /\ "propose" \notin r.called /\ r.pc # "propose" => r.proposed = ""
          /\ r.pc # "propose" =>
               IF r.proposed # ""
               THEN r.step5.finalMood = r.proposed /\ (r.step5.isNewFamily <=> r.proposed \notin r.existing)
               ELSE r.step5.finalMood = r.mood /\ ~r.step5.isNewFamily

\* the proposal denied by the gate: the suggested mood is saved, not new
C9_Witness ==
  \E i \in IngestIds :
    LET r == ingest[i]
    IN  /\ Scored(r) /\ r.pc = "done" /\ r.decidedBy = "ai-override"
        /\ "propose" \notin r.called /\ "embed" \in r.called
        /\ r.finalMood = r.mood /\ ~r.isNewFamily

\* C10 (SpecDecide): with an empty archive or the offline placeholder nothing
\* is scored, no proposal or broadening request is sent, the suggested mood is
\* saved, and isNewFamily is reported exactly when the archive was empty.
C10_SkipRule ==
  \A i \in IngestIds :
    LET r == ingest[i]
    IN  (r.pc = "done" /\ (r.existing = {} \/ r.offlineMode)) =>
          /\ r.scored = <<>>
          /\ r.called \cap {"propose", "broaden"} = {}
          /\ r.finalMood = r.mood
          /\ memories[Len(memories)].mood = r.mood
          /\ r.isNewFamily <=> r.existing = {}

\* the placeholder saved into a non-empty archive, reported as not new
C10_Witness ==
  \E i \in IngestIds :
    LET r == ingest[i]
    IN  r.pc = "done" /\ r.offlineMode /\ r.existing # {} /\ ~r.isNewFamily /\ r.scored = <<>>

\* C11 (SpecDecide), as claimed: every successful response carries a decidedBy
\* among offline, similarity, ai-new, ai-existing, ai-override.
C11_FiveTraces ==
  \A i \in IngestIds :
    (ingest[i].pc = "done" /\ ingest[i].status = 200) =>
      ingest[i].decidedBy \in {"offline", "similarity", "ai-new", "ai-existing", "ai-override"}

\* C11 (SpecDecide), amended: every successful response carries a decidedBy
\* among offline, ai, similarity, ai-new, ai-existing, ai-override; it is
\* 'offline' exactly on the offline path and 'ai' exactly when the archive was
\* empty and the path is not offline.
C11_SixTraces ==
  \A i \in IngestIds :
    LET r == ingest[i]
    IN  (r.pc = "done" /\ r.status = 200) =>
          /\ r.decidedBy \in {"offline", "ai", "similarity", "ai-new", "ai-existing", "ai-override"}
          /\ r.decidedBy = "offline" <=> r.offlineMode
          /\ r.decidedBy = "ai" <=> (r.existing = {} /\ ~r.offlineMode)

\* the first memory of an empty archive, classified by the provider
C11_Witness ==
  \E i \in IngestIds :
    LET r == ingest[i]
    IN  r.pc = "done" /\ r.status = 200 /\ r.decidedBy = "ai" /\ "classify" \in r.called

\* C12 (SpecDecide): whatever calls are denied, fail or answer garbage, the
\* step that ends an ingestion answers 200 and appends exactly one memory, no
\* earlier step writes any, and the saved mood is the pre-broadening name when
\* broadening gave nothing, and the suggested mood or the best family when
\* the proposal gave nothing either.
Ends(i) == ingest[i].pc # "done" /\ ingest'[i].pc = "done"

C12_FailuresAbsorbed ==
  [][\A i \in IngestIds :
       LET r == ingest'[i]
       IN  IF Ends(i)
           THEN /\ r.status = 200
                /\ Len(memories') = Len(memories) + 1
                /\ SubSeq(memories', 1, Len(memories)) = memories
                /\ memories'[Len(memories')].mood = r.finalMood
                /\ r.broadened = "" => r.finalMood = r.step5.finalMood
                /\ (r.broadened = "" /\ r.proposed = "") =>
                     \/ r.finalMood = r.mood
                     \/ r.scored # <<>> /\ r.finalMood = r.scored[1].mood
           ELSE ingest'[i] # ingest[i] => memories' = memories]_vars

\* classification answered garbage, embedding failed, proposal and broadening
\* were denied or failed: the memory is saved all the same
C12_Witness ==
  \E i \in IngestIds :
    LET r == ingest[i]
    IN  /\ r.pc = "done" /\ r.status = 200 /\ ~r.offlineMode
        /\ r.mood = "Memory" /\ "classify" \in r.called
        /\ r.embedding = Sentinel /\ r.step5.decidedBy = "ai-new"
        /\ r.broadened = "" /\ memories[Len(memories)].mood = "Memory"

\* C13 (SpecDecide): an unparseable classification answer takes the path of a
\* gate denial: offline, nothing scored, decidedBy = 'offline'.
C13_GarbageIsOffline ==
  \A i \in IngestIds :
    LET r == ingest[i]
    IN  (r.pc = "done" /\ r.mood = "Memory" /\ r.tags = {"Raw", "Unsorted"}) =>
          r.offlineMode /\ r.scored = <<>> /\ r.decidedBy = "offline"

\* C14 (SpecDecide): a broadening request is sent only off the offline path
\* and for a new family of step 5; a non-empty, different name is adopted and
\* isNewFamily becomes 'name not among the existing families'; otherwise the
\* mood and isNewFamily of step 5 stand; the decision trace stays as it was.
C14_Broadening ==
  \A i \in IngestIds :
    LET r == ingest[i]
    IN  /\ (r.pc = "broaden" \/ "broaden" \in r.called) => (~r.offlineMode /\ r.step5.isNewFamily)
        /\ (r.pc = "done" /\ ~r.offlineMode /\ r.existing # {}) =>
             /\ r.decidedBy = r.step5.decidedBy
             /\ IF r.broadened # "" /\ r.broadened # r.step5.finalMood
                THEN r.finalMood = r.broadened /\ (r.isNewFamily <=> r.broadened \notin r.existing)
                ELSE r.finalMood = r.step5.finalMood /\ (r.isNewFamily <=> r.step5.isNewFamily)
        /\ (r.pc = "done" /\ r.step5.isNewFamily /\ ~r.offlineMode) =>
             ("broaden" \in r.called \/ r.broadened = "")

\* a new family of step 5 collapses into an existing family by broadening
C14_Witness ==
  \E i \in IngestIds :
    LET r == ingest[i]
    IN  /\ r.pc = "done" /\ "broaden" \in r.called /\ r.step5.isNewFamily
        /\ r.broadened \in r.existing /\ r.finalMood = r.broadened /\ ~r.isNewFamily

\* C15 (SpecDecide): the bars of step 5 are 0.62 / 0.72 when the candidate's
\* embedding and the best family's stored embeddings are both usable, and
\* 0.52 / 0.60 otherwise, the gate's [0,0,0] included; the margin is 0.08.
Prior(r) == IF r.pc = "done" THEN SubSeq(memories, 1, Len(memories) - 1) ELSE memories
BothUsable(r) ==
  /\ isValidEmbedding(r.embedding)
  /\ \E k \in 1..Len(Prior(r)) :
       Prior(r)[k].mood = r.scored[1].mood /\ isValidEmbedding(Prior(r)[k].embedding)

C15_Bars ==
  \A i \in IngestIds :
    LET r == ingest[i]
        bar == IF BothUsable(r) THEN 6200 ELSE 5200
        strong == IF BothUsable(r) THEN 7200 ELSE 6000
        best == r.scored[1].score
        own == IndexOfMood(r.scored, r.mood, 1)
    IN  Scored(r) =>
          /\ r.scored[1].hasEmbedding <=> BothUsable(r)
          /\ r.step5.decidedBy = "similarity" <=>
               (best >= bar /\ (best - Runner(r) >= 800 \/ best >= strong))
          /\ r.step5.decidedBy = "ai-existing" =>
               (own # 0 /\ r.scored[own].score >= bar - 500)
          /\ (r.step5.decidedBy = "ai-override" /\ own # 0) => r.scored[own].score < bar - 500

\* the embedding request denied by the gate: a best score of 0.57 is reused on the lower bar
C15_Witness ==
  \E i \in IngestIds :
    LET r == ingest[i]
    IN  /\ Scored(r) /\ r.pc = "done" /\ "embed" \notin r.called /\ r.embedding = Sentinel
        /\ r.scored[1].score = 5700 /\ r.decidedBy = "similarity"
        /\ isValidEmbedding(Prior(r)[1].embedding)

\* ---- the links of an archive (SpecLinks)
Answered == links.status = 200
Found == candidateLinks(Newest(memories), 1)
Between(found, x, y) == {k \in 1..Len(found) : {found[k].fromId, found[k].toId} = {x, y}}
Pairs == {p \in (1..Len(memories)) \X (1..Len(memories)) : p[1] < p[2]}
Opposed(a, b) ==
  \E k \in 1..Len(contradictions) :
    \E p \in {<<a, b>>, <<b, a>>} :
      /\ includes(toLowerCase(p[1].mood), contradictions[k][1])
      /\ includes(toLowerCase(p[2].mood), contradictions[k][2])
NothingElseShared(a, b) ==
  /\ sharedCore(a, b) = {}
  /\ Range(a.tags) \cap Range(b.tags) = {}
  /\ ~(hasAbsence(a) /\ hasAbsence(b))

\* C16 (SpecLinks): for two memories of identical mood with no other shared
\* signal, the links of the two contain exactly one link between them, of
\* type 'family' and score 1.
C16_WeakFamilyLink ==
  (Answered /\ Len(memories) = 2) =>
    LET a == memories[1]
        b == memories[2]
    IN  (a.mood = b.mood /\ ~Opposed(a, b) /\ NothingElseShared(a, b)) =>
          /\ Len(links.body) = 1
          /\ links.body[1].type = "family"
          /\ links.body[1].score = 1

\* C17 (SpecLinks): two memories whose moods form a contradiction pair (in
\* either order, whatever the case) and that share nothing else get exactly
\* one link, of type 'idea', score >= 2 and reason 'shared contradiction';
\* checked for the two alone and for every archive whose links fit the cap.
C17_ContradictionLink ==
  Answered =>
    LET found == Found
        body == links.body
    IN  Len(found) <= 140 =>
          \A p \in Pairs :
            LET a == memories[p[1]]
                b == memories[p[2]]
            IN  (Opposed(a, b) /\ toLowerCase(a.mood) # toLowerCase(b.mood) /\ NothingElseShared(a, b)) =>
                  /\ Cardinality(Between(body, p[1], p[2])) = 1
                  /\ \A k \in Between(body, p[1], p[2]) :
                       /\ body[k].score >= 2
                       /\ body[k].type = "idea"
                       /\ body[k].reason = "shared contradiction"

\* 'Joy' saved before 'grief': the pair is met as (grief, Joy), the second order of the lookup
C17_Witness ==
  /\ Answered /\ Len(memories) = 2
  /\ memories[1].mood = "Joy" /\ memories[2].mood = "grief"
  /\ NothingElseShared(memories[1], memories[2])
  /\ Len(links.body) = 1 /\ links.body[1].score = 2 /\ links.body[1].type = "idea"

\* C18 (SpecLinks), as claimed: for every archive, every pair of memories of
\* equal non-empty mood has a link in the answer.
C18_SameMoodLinked ==
  Answered =>
    \A p \in Pairs :
      (memories[p[1]].mood # "" /\ memories[p[1]].mood = memories[p[2]].mood) =>
        Between(links.body, p[1], p[2]) # {}

\* C18 (SpecLinks), amended: every pair of memories of equal non-empty mood
\* yields a link of type 'family' before the cap, and the answer contains it
\* whenever the links found number at most 140.
C18_SameMoodLinkedUnderCap ==
  Answered =>
    LET found == Found
        body == links.body
    IN  \A p \in Pairs :
          (memories[p[1]].mood # "" /\ memories[p[1]].mood = memories[p[2]].mood) =>
            /\ \E k \in Between(found, p[1], p[2]) : found[k].type = "family"
            /\ Len(found) <= 140 => Between(body, p[1], p[2]) # {}

\* seventeen memories of one mood: 136 links, all returned
C18_Witness ==
  /\ Answered /\ Len(memories) = 17
  /\ \A k \in 1..Len(memories) : memories[k].mood = memories[1].mood
  /\ Len(links.body) = 136

\* C19 (SpecLinks): the answer holds at most 140 links, in non-increasing
\* order of score, all of them found, as many as the cap allows, and no link
\* left out scores higher than a link returned.
C19_TopLinks ==
  Answered =>
    LET found == Found
        all == Range(found)
        body == links.body
        ids == {body[k].id : k \in 1..Len(body)}
        scores == {body[k].score : k \in 1..Len(body)}
    IN  /\ Len(body) <= 140
        /\ Len(body) = (IF Len(found) < 140 THEN Len(found) ELSE 140)
        /\ \A k \in 1..(Len(body) - 1) : body[k].score >= body[k + 1].score
        /\ \A k \in 1..Len(body) : body[k] \in all
        /\ \A c \in 1..Len(found) :
             found[c].id \notin ids => \A v \in scores : found[c].score <= v

\* more than 140 links found, of two scores: the cap cuts among the lowest
C19_Witness ==
  /\ Answered /\ Len(links.body) = 140
  /\ links.body[1].score > links.body[140].score
  /\ LET found == Found
     IN  Len(found) > 140 /\ found[Len(found)].score = links.body[140].score

\* C22 (Spec): every memory saved through the offline path satisfies the
\* sweep's selection filter {tags: 'offline'} and is therefore among the
\* memories a later sweep selects.
C22_OfflineSavedIsSelected ==
  \A i \in DOMAIN ingest :
    (ingest[i].pc = "done" /\ ingest[i].offlineMode) =>
      \E k \in Range(OfflineIds(memories, 1)) : memories[k] = NewMemory(ingest[i])

\* C23 (SpecStore): a family brief for a mood no memory has, a competition
\* brief for an id no memory has and a link attachment to an id no memory has
\* are each answered 404; the gate is not asked, no provider call is made and
\* the archive stays as it is.
C23_NotFound ==
  [][LET absent == Len(memories) + 1
         untouched == memories' = memories /\ requestCount' = requestCount /\ audit' = audit
     IN  /\ \A mood \in {"Grief", "Joy"} :
              (FamilyBrief(mood, MaxRuns) /\ \A k \in 1..Len(memories) : memories[k].mood # mood) =>
                (brief' = [pc |-> "idle", status |-> 404] /\ untouched)
         /\ CompetitionBrief(absent, MaxRuns) => (brief' = [pc |-> "idle", status |-> 404] /\ untouched)
         /\ \A payload \in SrvPayloads \ {NoPayload, Payload("object", " ")} :
              AttachLink(absent, payload, MaxRuns) => (attach' = [status |-> 404, id |-> absent] /\ untouched)]_vars

\* a link attachment to an absent id was answered 404 and then a brief for an absent mood as well
C23_Witness ==
  /\ attach.status = 404 /\ attach.id = Len(memories) + 1
  /\ brief.status = 404 /\ brief.pc = "idle"
  /\ memories # <<>>

\* C24 (SpecStore): no step removes a memory; mood, tags and embedding of a
\* stored memory change only in the step of a sweep that writes this memory;
\* the links of a stored memory only grow, and a step that adds a link leaves
\* the memory's other fields as they were.
C24_Frame ==
  [][/\ Len(memories') >= Len(memories)
     /\ \A k \in 1..Len(memories) :
          LET before == memories[k]
              after == memories'[k]
              same == before.mood = after.mood /\ before.tags = after.tags /\ before.embedding = after.embedding
          IN  /\ ~same => \E s \in SweepIds : /\ sweep[s].pc \in {"embed", "broaden"}
                                              /\ sweep'[s].pc = "delay"
                                              /\ sweep[s].batch[sweep[s].idx] = k
              /\ before.links \subseteq after.links
              /\ before.links # after.links => (same /\ attach' = [status |-> 200, id |-> k])]_vars

\* a memory with a response link was re-classified by a sweep and kept its link
C24_Witness ==
  \E k \in 1..Len(memories), s \in SweepIds :
    /\ memories[k].links # {}
    /\ sweep[s].pc = "delay" /\ sweep[s].batch[sweep[s].idx] = k
    /\ memories[k].mood = sweep[s].finalMood /\ memories[k].mood # "Joy"

\* the listed memories reachable from the members over links between listed memories
RECURSIVE Component(_, _)
Component(members, lnks) ==
  LET listed == DOMAIN clusterLabelById
      more == {y \in listed : \E k \in 1..Len(lnks) : \E x \in members :
                 {lnks[k].fromId, lnks[k].toId} = {x, y}}
  IN  IF more \subseteq members THEN members ELSE Component(members \cup more, lnks)

\* C21 (SpecPure): the memories of one connected component of the link graph
\* all carry the same label, and the label is a mood no other mood of the
\* component occurs more often than.
C21_ClusterLabels ==
  (probe.fn = "buildClusterMap" /\ probe.done) =>
    \A x \in DOMAIN clusterLabelById :
      LET members == Component({x}, probe.links)
          moodOf(y) == normalizeMood(probe.memories[y].mood)
          count(mood) == Cardinality({y \in members : moodOf(y) = mood})
      IN  \A y \in members :
            /\ clusterLabelById[y] = clusterLabelById[x]
            /\ count(clusterLabelById[x]) >= count(moodOf(y))

\* the path A - B - C with moods Joy, Joy, Grief, the second link joining two roots: all 'Joy'
C21_Witness ==
  /\ probe.fn = "buildClusterMap" /\ probe.done
  /\ probe.links = <<[fromId |-> 1, toId |-> 2], [fromId |-> 2, toId |-> 3]>>
  /\ [k \in 1..3 |-> probe.memories[k].mood] = <<"Joy", "Joy", "Grief">>
  /\ clusterLabelById = <<"Joy", "Joy", "Joy">>

\* C25 (SpecPure): axisSimilarity of two axes is the same in either order of
\* its arguments, for empty and malformed axes, axes that are no arrays,
\* labels repeated up to case and blanks, and weights of zero.
C25_Symmetric ==
  (probe.fn = "axisSimilarity" /\ probe.done) =>
    probe.out = axisSimilarity(probe.right, probe.left)

\* 'calm' twice on the left (30 and 70, merged to 1) against 'calm' 30 listed second on the right
C25_Witness ==
  /\ probe.fn = "axisSimilarity" /\ probe.done
  /\ probe.left = Axis(<<Entry("calm", 30), Entry("Calm", 70)>>)
  /\ probe.right = Axis(<<Entry("sorrow", 50), Entry("calm", 30)>>)
  /\ probe.out = 3000

RECURSIVE Numerators(_, _)
Numerators(axis, k) == IF k > Len(axis) THEN 0 ELSE axis[k].weight.num + Numerators(axis, k + 1)

\* C26 (SpecPure): every axis of a normalized theme vector has from one to
\* four entries, weights >= 0 that sum to 1, and is the single fallback label
\* with weight 1 when the axis was no array or none of its first four
\* labelled entries has a positive weight.
C26_NormalizedAxes ==
  (probe.fn = "normalizeThemeVector" /\ probe.done) =>
    \A name \in AxisNames :
      LET axis == probe.out[name]
          given == probe.themeVector[name]
          labelled == SelectSeq(given.entries, LAMBDA e : trim(e.label) # "")
          kept == SubSeq(labelled, 1, IF Len(labelled) < 4 THEN Len(labelled) ELSE 4)
      IN  /\ Len(axis) \in 1..4
          /\ \A k \in 1..Len(axis) : /\ axis[k].weight.num >= 0
                                     /\ axis[k].weight.den > 0
                                     /\ axis[k].weight.den = axis[1].weight.den
          /\ Numerators(axis, 1) = axis[1].weight.den
          /\ (~given.isArray \/ \A k \in 1..Len(kept) : ~(kept[k].finite /\ kept[k].weight > 0)) =>
               axis = <<[label |-> fallbackLabelOf(name), weight |-> [num |-> 1, den |-> 1]]>>

\* five labelled entries of positive weight: four are kept, their weights over their own total
C26_Witness ==
  /\ probe.fn = "normalizeThemeVector" /\ probe.done
  /\ Len(probe.themeVector["emotionalCore"].entries) = 5
  /\ \A k \in 1..5 : probe.themeVector["emotionalCore"].entries[k].weight > 0
  /\ Len(probe.out["emotionalCore"]) = 4
  /\ probe.out["emotionalCore"][2].weight = [num |-> 50, den |-> 140]

\* C27 (SpecPure): with the three sub-scores between 0 and 1 the score of
\* scoreFamilyMatch is between 0 and 1, with and without a usable embedding
\* on either side.
C27_ScoreInUnitInterval ==
  (probe.fn = "scoreFamilyMatch" /\ probe.done) =>
    (probe.out.score >= 0 /\ probe.out.score <= 10000)

\* no usable embedding, theme and tag scores of 1: the score is 1 under the second set of weights
C27_Witness ==
  /\ probe.fn = "scoreFamilyMatch" /\ probe.done
  /\ ~probe.out.hasEmbedding
  /\ probe.sim.t = 100 /\ probe.sim.g = 100
  /\ probe.out.score = 10000

\* the signals of a pair as the scorer meets it: a is scanned before b
Same(a, b) == a.mood # "" /\ b.mood # "" /\ toLowerCase(a.mood) = toLowerCase(b.mood)
TagsOfFirstInSecond(a, b) ==
  Cardinality({k \in 1..Len(a.tags) : \E j \in 1..Len(b.tags) : b.tags[j] = a.tags[k]})
Apart(a, b, moodPoints) ==
  LET n == TagsOfFirstInSecond(a, b)
  IN  (IF Opposed(a, b) THEN 2 ELSE 0) + moodPoints
      + (IF sharedCore(a, b) # {} THEN 2 ELSE 0)
      + (IF n < 2 THEN n ELSE 2)
      + (IF hasAbsence(a) /\ hasAbsence(b) THEN 1 ELSE 0)
FirstSignal(a, b) ==
  IF Opposed(a, b) THEN "shared contradiction"
  ELSE IF Same(a, b) THEN "shared mood"
  ELSE IF sharedCore(a, b) # {} THEN "shared emotional core"
  ELSE IF TagsOfFirstInSecond(a, b) > 0 THEN "shared image"
  ELSE "shared absence"

\* C28 (SpecLinks), as claimed: the score of a pair's link is 2 for a
\* contradiction, 2 for the same mood only when no reason was attributed
\* before, 2 for a shared emotional-core label, min(shared tags, 2) and 1 for
\* mutual absence; the reason is the first signal that contributed.
C28_ScoreAsClaimed ==
  Answered =>
    LET found == Found
    IN  \A p \in Pairs :
          LET a == memories[p[2]]
              b == memories[p[1]]
              score == Apart(a, b, IF Same(a, b) /\ ~Opposed(a, b) THEN 2 ELSE 0)
          IN  \A k \in Between(found, p[1], p[2]) :
                found[k].score = score /\ found[k].reason = FirstSignal(a, b)

\* C28 (SpecLinks), amended: the 2 for the same mood is added whether or not
\* a reason was attributed before; the pairs with a link are exactly the
\* pairs whose sum is at least 2, one link each, with the sum as score and
\* the first signal as reason; a link of the answer carries the sum of its pair.
C28_Score ==
  Answered =>
    LET found == Found
        ends == {<<found[k].fromId, found[k].toId>> : k \in 1..Len(found)}
        sum == [p \in Pairs |-> Apart(memories[p[2]], memories[p[1]],
                                      IF Same(memories[p[2]], memories[p[1]]) THEN 2 ELSE 0)]
    IN  /\ \A k \in 1..Len(links.body) :
             LET p == <<links.body[k].toId, links.body[k].fromId>>
             IN  p \in DOMAIN sum /\ links.body[k].score = sum[p]
        /\ Cardinality(ends) = Len(found)
        /\ Cardinality({p \in DOMAIN sum : sum[p] >= 2}) = Len(found)
        /\ \A k \in 1..Len(found) :
             LET p == <<found[k].toId, found[k].fromId>>
             IN  /\ p \in DOMAIN sum
                 /\ sum[p] >= 2
                 /\ found[k].score = sum[p]
                 /\ found[k].reason = FirstSignal(memories[p[2]], memories[p[1]])

\* two memories of mood 'Joyful Grief': contradiction and same mood both count, 2 + 2 + 2 for the core
C28_Witness ==
  /\ Answered /\ Len(memories) = 2
  /\ memories[1].mood = "Joyful Grief" /\ memories[2].mood = "Joyful Grief"
  /\ Len(links.body) = 1
  /\ links.body[1].score = 6 /\ links.body[1].reason = "shared contradiction"

\* C29 (SpecLinks): a returned link has type 'family' exactly when its two
\* memories have equal non-empty mood up to case, else type 'idea'; an 'idea'
\* link scores at least 2; two memories of different mood whose signals add
\* up to less than 2 have no link.
C29_LinkTypes ==
  Answered =>
    LET body == links.body
    IN  /\ \A k \in 1..Len(body) :
             LET a == memories[body[k].fromId]
                 b == memories[body[k].toId]
             IN  /\ body[k].type = (IF Same(a, b) THEN "family" ELSE "idea")
                 /\ body[k].type = "idea" => body[k].score >= 2
        /\ \A p \in Pairs :
             LET a == memories[p[2]]
                 b == memories[p[1]]
             IN  (~Same(a, b) /\ Apart(a, b, 0) < 2) => Between(body, p[1], p[2]) = {}

\* 'Joy' and 'joy' share the mood and nothing else: one link, of type 'family'
C29_Witness ==
  /\ Answered /\ Len(memories) = 2
  /\ memories[1].mood = "Joy" /\ memories[2].mood = "joy"
  /\ Apart(memories[2], memories[1], 0) = 0
  /\ Len(links.body) = 1 /\ links.body[1].type = "family" /\ links.body[1].score = 2

\* C30 (SpecLinks): the answer has at most one link for two memories of the
\* window and none from a memory to itself; fromId is the memory listed
\* earlier in the window (the newer one), toId the one listed later.
C30_OneLinkPerPair ==
  Answered =>
    LET window == Newest(memories)
        body == links.body
        index == [id \in {window[k].id : k \in 1..Len(window)} |-> CHOOSE k \in 1..Len(window) : window[k].id = id]
        ends == {{body[k].fromId, body[k].toId} : k \in 1..Len(body)}
    IN  /\ \A k \in 1..Len(body) :
             /\ body[k].fromId \in DOMAIN index /\ body[k].toId \in DOMAIN index
             /\ body[k].fromId # body[k].toId
             /\ index[body[k].fromId] < index[body[k].toId]
        /\ Cardinality(ends) = Len(body)

\* three memories, every two of them linked: three links, each from the newer to the older
C30_Witness ==
  /\ Answered /\ Len(memories) = 3
  /\ Len(links.body) = 3
  /\ \A k \in 1..3 : links.body[k].fromId > links.body[k].toId
  /\ memories[1].mood # memories[2].mood

\* C31 (SpecPure): once the links are processed, two listed memories have the
\* same root exactly when a path of links between listed memories connects
\* them, so a link with a missing end or an end that is not listed merges
\* nothing; and the label map has a label for the listed ids and no others.
C31_PartitionIsConnectivity ==
  (probe.fn = "buildClusterMap" /\ probe.done) =>
    LET listed == {probe.memories[k].id : k \in 1..Len(probe.memories)}
    IN  /\ DOMAIN clusterLabelById = listed
        /\ DOMAIN probe.parent = listed
        /\ \A x \in listed :
             LET members == Component({x}, probe.links)
             IN  \A y \in listed : (rootOf(probe.parent, x) = rootOf(probe.parent, y)) <=> (y \in members)

\* a link from the first memory to one that is not listed, then a link between
\* the second and the third: the first stays alone, the other two share a root
C31_Witness ==
  /\ probe.fn = "buildClusterMap" /\ probe.done
  /\ probe.links = <<[fromId |-> 1, toId |-> MaxNodes + 1], [fromId |-> 2, toId |-> 3]>>
  /\ rootOf(probe.parent, 2) = rootOf(probe.parent, 3)
  /\ rootOf(probe.parent, 1) # rootOf(probe.parent, 2)

\* C32 (SpecPure): when several moods share the highest count of a component,
\* its label is the one of them that the tally met first, the tally going
\* through the component's members in the order of the memory list.
C32_TieToFirstEncountered ==
  (probe.fn = "buildClusterMap" /\ probe.done) =>
    \A x \in DOMAIN clusterLabelById :
      LET members == Component({x}, probe.links)
          at == {k \in 1..Len(probe.memories) : probe.memories[k].id \in members}
          moodAt(k) == normalizeMood(probe.memories[k].mood)
          count(mood) == Cardinality({k \in at : moodAt(k) = mood})
          tied == {k \in at : \A j \in at : count(moodAt(k)) >= count(moodAt(j))}
          first == CHOOSE k \in tied : \A j \in tied : k <= j
      IN  clusterLabelById[x] = moodAt(first)

\* 'Grief' and 'Joy' linked, one memory each, 'Grief' listed first: both are labelled 'Grief'
C32_Witness ==
  /\ probe.fn = "buildClusterMap" /\ probe.done
  /\ probe.links = <<[fromId |-> 1, toId |-> 2]>>
  /\ [k \in 1..3 |-> probe.memories[k].mood] = <<"Grief", "Joy", "Joy">>
  /\ clusterLabelById[1] = "Grief" /\ clusterLabelById[2] = "Grief" /\ clusterLabelById[3] = "Joy"

\* C33 (SpecSweep): when the sweep has scored the families for a memory, the
\* mood it settles on before broadening is the best family's if the best score
\* reaches 0.62, the comparison with the best family having used a usable
\* embedding on both sides, or 0.52 otherwise; else it is the classified mood.
C33_SweepThreshold ==
  [][\A s \in SweepIds :
       (sweep[s].pc = "embed" /\ sweep'[s].pc \in {"broaden", "delay", "classify"} /\ sweep'[s].scored # <<>>) =>
         LET rec == sweep'[s]
             best == rec.scored[1]
             threshold == IF isValidEmbedding(rec.embedding) /\ best.hasEmbedding THEN 6200 ELSE 5200
         IN  rec.finalMood = IF best.score >= threshold THEN best.mood ELSE rec.mood]_vars

\* C34 (SpecSweepFair): a sweep that has set isReprocessing sets it back to
\* false, whichever way it ends: nothing to do, a query that fails, the gate
\* denying a memory, a quota error, a memory that fails, or the end of the batch.
C34_GuardReleased == isReprocessing ~> ~isReprocessing

\* one sweep ended by a failed query, the next by the gate's denial: the guard is down after both
C34_Witness ==
  /\ ~isReprocessing
  /\ sweep[1].outcome = "failed"
  /\ sweep[2].outcome = "stopped" /\ sweep[2].denied

RECURSIVE GrantsIn(_)
GrantsIn(stamps) == IF stamps = <<>> THEN 0 ELSE Head(stamps).n + GrantsIn(Tail(stamps))

\* C35 (SpecGate): at most 14 acquires are granted in any interval of 60
\* seconds, wherever it lies relative to the resets of the window: at each
\* call of the gate, the grants of the 60 seconds that end with it are at most 14.
C35_AtMost14PerMinute == GrantsIn(audit.stamps) <= 14

\* C36 (SpecDecide): a successful ingestion reports isNewFamily exactly when
\* the mood it saved was not among the families it read from the archive; so
\* on the offline path with families in the archive, isNewFamily = false only
\* if the placeholder mood is one of them.
C36_NewFamilyFlag ==
  \A i \in IngestIds :
    LET r == ingest[i]
    IN  (r.pc = "done" /\ r.status = 200) => (r.isNewFamily <=> r.finalMood \notin r.existing)

\* C37 (SpecIngest): of the ingestions that run side by side, at most one
\* reports a given family as newly created: no two successful responses carry
\* isNewFamily = true with the same finalMood.
C37_NewFamilyOnce ==
  \A i \in IngestIds, j \in IngestIds :
    LET a == ingest[i]
        b == ingest[j]
    IN  (/\ i # j
         /\ a.pc = "done" /\ a.status = 200 /\ a.isNewFamily
         /\ b.pc = "done" /\ b.status = 200 /\ b.isNewFamily) => a.finalMood # b.finalMood

\* C38 (SpecSweep): when the re-classification of a memory fails, the step
\* that fails leaves every stored memory as it was; after a failure that is no
\* quota error the sweep turns to the next memory of the batch (it ends if
\* there is none, or if the gate denies that memory), and after a quota error
\* it ends at once, the rest of the batch untouched.
C38_FailureLeavesMemory ==
  [][\A s \in SweepIds :
       LET old == sweep[s]
           new == sweep'[s]
           other == new.failed \ old.failed # {}
           quota == old.pc = "classify" /\ new.outcome = "quota"
       IN  /\ other =>
                /\ memories' = memories
                /\ new.failed = old.failed \cup {old.batch[old.idx]}
                /\ IF old.idx = Len(old.batch)
                   THEN new.pc = "idle" /\ new.outcome = "completed"
                   ELSE \/ new.pc = "classify" /\ new.batch = old.batch /\ new.idx = old.idx + 1
                        \/ new.pc = "idle" /\ new.outcome = "stopped" /\ new.denied
           /\ quota => (memories' = memories /\ new.pc = "idle" /\ ~isReprocessing')]_vars

\* the first memory of a batch of two failed and was left as stored, the sweep is at the second
C38_Witness ==
  /\ sweep[1].pc = "classify" /\ sweep[1].idx = 2 /\ sweep[1].failed = {1}
  /\ Len(memories) = 2 /\ memories[1] = Offline("Joy")

\* C39 (SpecStore): a request that is rejected leaves the gate and the
\* memories as they were: POST / without text or with blank text answers 400,
\* a family brief without a mood 400 and for a mood no memory has 404, a
\* competition brief for an id no memory has 404, none of them taking a slot
\* of the gate or writing a memory.
C39_RejectedLeavesState ==
  [][LET untouched == /\ memories' = memories
                      /\ requestCount' = requestCount
                      /\ rateLimitResetTime' = rateLimitResetTime
                      /\ audit' = audit
         absent == Len(memories) + 1
     IN  /\ \A i \in IngestIds : \A text \in {NoText, Text(""), Text(" ")} :
              PostIngest(i, text, SrvDraws, MaxRuns) => (ingest'[i].status = 400 /\ untouched)
         /\ FamilyBrief("", MaxRuns) => (brief' = [pc |-> "idle", status |-> 400] /\ untouched)
         /\ \A mood \in {"Grief", "Joy"} :
              (FamilyBrief(mood, MaxRuns) /\ mood \notin {memories[k].mood : k \in 1..Len(memories)}) =>
                (brief' = [pc |-> "idle", status |-> 404] /\ untouched)
         /\ CompetitionBrief(absent, MaxRuns) => (brief' = [pc |-> "idle", status |-> 404] /\ untouched)]_vars

\* a request with blank text was answered 400 after thirteen grants of the
\* window: the fourteenth slot is still free
C39_Witness ==
  \E i \in IngestIds :
    /\ ingest[i].pc = "done" /\ ingest[i].status = 400
    /\ requestCount = 13 /\ Len(memories) = 1 /\ runs >= 1

\* the link lists that hold the links of lnks in any order, each in either direction
Rearranged(lnks) ==
  LET n == Len(lnks)
      orders == {p \in [1..n -> 1..n] : \A a \in 1..n, b \in 1..n : p[a] = p[b] => a = b}
      turned(l) == [fromId |-> l.toId, toId |-> l.fromId]
  IN  {[k \in 1..n |-> IF k \in flips THEN turned(lnks[p[k]]) ELSE lnks[p[k]]] :
         p \in orders, flips \in SUBSET (1..n)}

\* every id of the parent map reaches an id that is its own parent
Forest(parent) ==
  LET up[k \in 0..Cardinality(DOMAIN parent)] ==
        IF k = 0 THEN [id \in DOMAIN parent |-> id]
        ELSE [id \in DOMAIN parent |-> parent[up[k - 1][id]]]
      top == up[Cardinality(DOMAIN parent)]
  IN  \A id \in DOMAIN parent : parent[id] \in DOMAIN parent /\ parent[top[id]] = top[id]

\* C40 (SpecOrder): the labels are the same for the links in any order and
\* with any of them turned round; and the parent map the links leave, in any
\* order and direction, is a forest on which find changes the root of no id.
C40_OrderAndDirection ==
  (probe.fn = "buildClusterMap" /\ probe.done) =>
    LET lists == Rearranged(probe.links)
        parents == {unionAll(parentOf(probe.memories), lnks, 1, Len(lnks)) : lnks \in lists}
    IN  /\ \A lnks \in lists : buildClusterMap(probe.memories, lnks) = clusterLabelById
        /\ probe.parent \in parents
        /\ \A parent \in parents :
             /\ Forest(parent)
             /\ \A id \in DOMAIN parent :
                  LET found == find(parent, id)
                  IN  /\ Forest(found.parent)
                      /\ found.root = rootOf(parent, id)
                      /\ \A x \in DOMAIN parent : rootOf(found.parent, x) = rootOf(parent, x)

\* the third memory linked to the first and then to the second, 'Grief' twice in
\* the component: all three are labelled 'Grief', as with the links exchanged and turned
C40_Witness ==
  /\ probe.fn = "buildClusterMap" /\ probe.done
  /\ probe.links = <<[fromId |-> 1, toId |-> 3], [fromId |-> 2, toId |-> 3]>>
  /\ [k \in 1..3 |-> probe.memories[k].mood] = <<"Joy", "Grief", "Grief">>
  /\ clusterLabelById = <<"Grief", "Grief", "Grief">>
  /\ buildClusterMap(probe.memories, <<[fromId |-> 3, toId |-> 2], [fromId |-> 3, toId |-> 1]>>) = clusterLabelById

====
